---- MODULE Spec2Model ----
(***************************************************************************)
(* Model of the health dashboard repository:                               *)
(*   db.py                   the two-table store (activities, weigh_ins)   *)
(*   garmin_notion_sync.py   the importer (sync_garmin)                    *)
(*   generate_dashboard.py   calculate_streak, generate_dashboard          *)
(*   health_notifications.py build_daily_message, get_today_suggestion     *)
(*                                                                         *)
(* A calendar day is an integer ordinal.  The code keeps days as ISO       *)
(* 'YYYY-MM-DD' strings (whose lexicographic order is the calendar order)  *)
(* and parses them with strptime before it subtracts them; the ordinal is  *)
(* the parsed value, and DateOf gives its year, month and day.             *)
(***************************************************************************)
EXTENDS Integers, Sequences, FiniteSets, TLC

VARIABLES
    activities,   \* table activities: sequence of rows, in rowid order
    weigh_ins,    \* table weigh_ins: sequence of rows, in rowid order
    upstream,     \* what the Garmin service holds at the last sync
    result,       \* outcome of the last sync_garmin run
    today,        \* datetime.now().date()
    dash,         \* statistics computed by the last generate_dashboard run
    msg,          \* statistics computed by the last build_daily_message run
    sug_in,       \* arguments of a get_today_suggestion call
    suggestion    \* what that call returned

vars == <<activities, weigh_ins, upstream, result, today, dash, msg, sug_in, suggestion>>

\* Python's None, where the model holds a string or a record
None == "None"
\* a number or a day that is absent, or that is no number and no day
Missing == 0 - 1
Malformed == 0 - 2
\* a type key that cannot be read (activityType is null)
BadKey == "BadKey"

-----------------------------------------------------------------------------
(* Bounds of the model *)

\* day ordinals of the records are 0..MaxDate
MaxDate == 9
\* day ordinal 0 is this many days after 2026-01-01 (0 is 2026-01-23, so
\* that the last two days are the last of January and the first of February)
EpochOffset == 22
\* rows of the activities table the reports are run on
MaxRows == 3
\* rest_days handed to get_today_suggestion are 0..MaxRestDays
MaxRestDays == 3
\* exercises handed to get_today_suggestion
MaxRecent == 2
\* upstream activities plus upstream weight entries of one sync
MaxBatch == 2

-----------------------------------------------------------------------------
(* Helpers on sequences and sets *)

Range(s) == {s[i] : i \in 1..Len(s)}

RECURSIVE SetMax(_)
SetMax(S) ==
    LET x == CHOOSE y \in S : TRUE
    IN  IF S = {x} THEN x
        ELSE LET m == SetMax(S \ {x}) IN IF x > m THEN x ELSE m

-----------------------------------------------------------------------------
(* db.py: the store *)

\* CREATE TABLE activities: the columns the importer and the reports use.
\* exercise TEXT NOT NULL is checked by InsertOrIgnoreActivity and not kept.
ActivityRow(gid, date, type) ==
    [garmin_activity_id |-> gid, date |-> date, type |-> type]

\* CREATE TABLE weigh_ins: weight_kg is kept in hundredths of a kilogram
WeighInRow(date, centikg) == [date |-> date, weight_kg |-> centikg]

\* InsertOrIgnoreActivity with the bug of a plain INSERT into a table whose
\* garmin_activity_id is not UNIQUE
InsertActivity(rows, name, row) ==
    IF name = None THEN rows ELSE Append(rows, row)

\* INSERT OR IGNORE INTO activities: a row that violates NOT NULL (exercise)
\* or UNIQUE (garmin_activity_id) is skipped, and no error is raised
InsertOrIgnoreActivity(rows, name, row) ==
    IF name = None THEN rows
    ELSE IF \E r \in Range(rows) : r.garmin_activity_id = row.garmin_activity_id
         THEN rows
         ELSE Append(rows, row)

\* INSERT OR IGNORE INTO weigh_ins: date is UNIQUE
InsertOrIgnoreWeighIn(rows, row) ==
    IF \E r \in Range(rows) : r.date = row.date THEN rows ELSE Append(rows, row)

-----------------------------------------------------------------------------
(* garmin_notion_sync.py: the importer *)

DAYS_TO_SYNC == 7

\* GARMIN_TO_TYPE with the bug of a strength type that is not a tracked type
GARMIN_TO_TYPE_strength_untracked ==
    [k \in {"running", "trail_running", "treadmill_running", "walking", "hiking",
            "casual_walking", "cycling", "indoor_cycling", "virtual_ride",
            "strength_training", "cardio", "tennis", "tennis_v2", "padel",
            "paddelball", "racquet_ball", "golf", "other"} |->
        CASE k \in {"running", "treadmill_running"} -> "Run"
          [] k = "trail_running" -> "Trail Run"
          [] k \in {"walking", "casual_walking", "other"} -> "Walk"
          [] k = "hiking" -> "Hike"
          [] k \in {"cycling", "indoor_cycling", "virtual_ride"} -> "Indoor Cycle"
          [] k \in {"strength_training", "cardio"} -> "Strength"
          [] k \in {"tennis", "tennis_v2"} -> "Tennis"
          [] k \in {"padel", "paddelball", "racquet_ball"} -> "Padel"
          [] k = "golf" -> "Golf"]

GARMIN_TO_TYPE ==
    [k \in {"running", "trail_running", "treadmill_running", "walking", "hiking",
            "casual_walking", "cycling", "indoor_cycling", "virtual_ride",
            "strength_training", "cardio", "tennis", "tennis_v2", "padel",
            "paddelball", "racquet_ball", "golf", "other"} |->
        CASE k \in {"running", "treadmill_running"} -> "Run"
          [] k = "trail_running" -> "Trail Run"
          [] k \in {"walking", "casual_walking", "other"} -> "Walk"
          [] k = "hiking" -> "Hike"
          [] k \in {"cycling", "indoor_cycling", "virtual_ride"} -> "Indoor Cycle"
          [] k \in {"strength_training", "cardio"} -> "Kettlebells"
          [] k \in {"tennis", "tennis_v2"} -> "Tennis"
          [] k \in {"padel", "paddelball", "racquet_ball"} -> "Padel"
          [] k = "golf" -> "Golf"]

\* SKIP_ACTIVITY_TYPES with the bug of an empty list
SKIP_NO_ACTIVITY_TYPES == {}

SKIP_ACTIVITY_TYPES == {"sleep", "uncategorized"}

\* str.lower() on the type keys the model feeds in
Lower(k) ==
    CASE k = "Running" -> "running"
      [] k = "Sleep" -> "sleep"
      [] OTHER -> k

\* GarminClient.get_activities: any activity whose startTimeLocal does not
\* parse raises inside the try, and the except returns []; otherwise the
\* activities whose day is not before now - days are kept.  now has a time of
\* day, the activity's day is a midnight: the day passes when it is after
\* today - days.
get_activities(raw, days, now) ==
    IF \E i \in 1..Len(raw) : raw[i].startTimeLocal = Malformed
    THEN <<>>
    ELSE SelectSeq(raw, LAMBDA a : a.startTimeLocal > now - days)

\* round(entry['weight'] / 1000, 2), in hundredths of a kilogram
GramsToKg(g) ==
    LET q == g \div 10
        r == g % 10
    IN  IF r > 5 \/ (r = 5 /\ q % 2 = 1) THEN q + 1 ELSE q

\* GarminClient.get_weight_data: entries without a weight (None or 0, both
\* false for the if) are left out; an
\* entry without calendarDate raises inside the try, and the except returns []
get_weight_data(raw) ==
    IF \E i \in 1..Len(raw) : raw[i].weight # 0 /\ raw[i].calendarDate = Missing
    THEN <<>>
    ELSE LET kept == SelectSeq(raw, LAMBDA e : e.weight # 0)
         IN  [i \in 1..Len(kept) |->
                 [date |-> kept[i].calendarDate, weight_kg |-> GramsToKg(kept[i].weight)]]

\* get_existing_garmin_ids with the bug of comparing nothing: no id is
\* reported as stored
get_no_existing_ids(rows) == {}

get_existing_garmin_ids(rows) == {r.garmin_activity_id : r \in Range(rows)}

get_existing_weight_dates(rows) == {r.date : r \in Range(rows)}

\* create_activity_entry: <<returned value, table afterwards>>.  A duration
\* that is no number raises in round(), inside the try: False is returned.
create_activity_entry(rows, activity, activity_type) ==
    IF activity.duration = Malformed
    THEN <<FALSE, rows>>
    ELSE <<TRUE, InsertOrIgnoreActivity(rows, activity.activityName,
               ActivityRow(ToString(activity.activityId), activity.startTimeLocal,
                           activity_type))>>

\* create_weight_entry: <<returned value, table afterwards>>
create_weight_entry(rows, weight_data) ==
    <<TRUE, InsertOrIgnoreWeighIn(rows, WeighInRow(weight_data.date, weight_data.weight_kg))>>

\* The activity loop of sync_garmin, from activity i on.  st.error names the
\* exception that left the loop: nothing in sync_garmin catches it.
RECURSIVE SyncActivities(_, _, _, _)
SyncActivities(acts, i, existing_garmin_ids, st) ==
    IF i > Len(acts) \/ st.error # None THEN st
    ELSE LET activity == acts[i] IN
      IF activity.activityId = Missing
      THEN [st EXCEPT !.error = "KeyError"]
      ELSE IF ToString(activity.activityId) \in existing_garmin_ids
      THEN SyncActivities(acts, i + 1, existing_garmin_ids,
                          [st EXCEPT !.activities_skipped = @ + 1])
      ELSE IF activity.typeKey = BadKey
      THEN [st EXCEPT !.error = "AttributeError"]
      ELSE LET garmin_type == Lower(activity.typeKey) IN
        IF garmin_type \in SKIP_ACTIVITY_TYPES
        THEN SyncActivities(acts, i + 1, existing_garmin_ids, st)
        ELSE LET activity_type == IF garmin_type \in DOMAIN GARMIN_TO_TYPE
                                  THEN GARMIN_TO_TYPE[garmin_type] ELSE "Walk"
                 warned == IF garmin_type \notin DOMAIN GARMIN_TO_TYPE
                           THEN st.warnings \cup {garmin_type} ELSE st.warnings
                 made == create_activity_entry(st.activities, activity, activity_type)
             IN  SyncActivities(acts, i + 1, existing_garmin_ids,
                    [st EXCEPT !.activities = made[2],
                               !.activities_created = IF made[1] THEN @ + 1 ELSE @,
                               !.warnings = warned])

\* SyncWeights with the bug of an upsert: the weight of a day that is stored
\* already is overwritten
RECURSIVE SyncWeightsUpsert(_, _, _, _)
SyncWeightsUpsert(entries, i, existing_weight_dates, st) ==
    IF i > Len(entries) THEN st
    ELSE LET weight == entries[i] IN
      IF weight.date \in existing_weight_dates
      THEN SyncWeightsUpsert(entries, i + 1, existing_weight_dates,
              [st EXCEPT !.weights_skipped = @ + 1,
                         !.weigh_ins = [k \in 1..Len(@) |->
                             IF @[k].date = weight.date
                             THEN WeighInRow(weight.date, weight.weight_kg) ELSE @[k]]])
      ELSE LET made == create_weight_entry(st.weigh_ins, weight)
           IN  SyncWeightsUpsert(entries, i + 1, existing_weight_dates,
                  [st EXCEPT !.weigh_ins = made[2],
                             !.weights_created = IF made[1] THEN @ + 1 ELSE @])

\* The weight loop of sync_garmin, from entry i on
RECURSIVE SyncWeights(_, _, _, _)
SyncWeights(entries, i, existing_weight_dates, st) ==
    IF i > Len(entries) THEN st
    ELSE LET weight == entries[i] IN
      IF weight.date \in existing_weight_dates
      THEN SyncWeights(entries, i + 1, existing_weight_dates,
                       [st EXCEPT !.weights_skipped = @ + 1])
      ELSE LET made == create_weight_entry(st.weigh_ins, weight)
           IN  SyncWeights(entries, i + 1, existing_weight_dates,
                  [st EXCEPT !.weigh_ins = made[2],
                             !.weights_created = IF made[1] THEN @ + 1 ELSE @])

\* sync_garmin from its reads of the store to its return
sync_garmin(rows, weights, garmin, now) ==
    LET st0 == [activities |-> rows, weigh_ins |-> weights, error |-> None,
                activities_created |-> 0, activities_skipped |-> 0,
                weights_created |-> 0, weights_skipped |-> 0, warnings |-> {}]
        st1 == SyncActivities(get_activities(garmin.activities, DAYS_TO_SYNC, now), 1,
                              get_existing_garmin_ids(rows), st0)
    IN  IF st1.error # None THEN st1
        ELSE SyncWeights(get_weight_data(garmin.weights), 1,
                         get_existing_weight_dates(weights), st1)

\* What a run that returned hands back (the dictionary of line 344, and the
\* warnings it logged); a run that raised hands back the exception.
SyncReturn(st) ==
    IF st.error # None THEN [error |-> st.error]
    ELSE [error |-> None,
          activities_created |-> st.activities_created,
          activities_skipped |-> st.activities_skipped,
          weights_created |-> st.weights_created,
          weights_skipped |-> st.weights_skipped,
          warnings |-> st.warnings]


-----------------------------------------------------------------------------
(* The calendar: datetime.date on day ordinals *)

IsLeap(y) == (y % 4 = 0 /\ y % 100 # 0) \/ y % 400 = 0

MonthLength(y, m) ==
    IF m = 2 THEN (IF IsLeap(y) THEN 29 ELSE 28)
    ELSE IF m \in {4, 6, 9, 11} THEN 30 ELSE 31

\* the date that is n >= 0 days after the first of month m of year y
RECURSIVE DateFrom(_, _, _)
DateFrom(y, m, n) ==
    IF n < MonthLength(y, m) THEN [year |-> y, month |-> m, day |-> n + 1]
    ELSE IF m = 12 THEN DateFrom(y + 1, 1, n - MonthLength(y, m))
         ELSE DateFrom(y, m + 1, n - MonthLength(y, m))

\* Python's round(num / den) for num >= 0, den > 0: to the nearest integer,
\* an exact half to the even one
PyRound(num, den) ==
    LET q == num \div den
        r == num % den
    IN  IF 2 * r > den \/ (2 * r = den /\ q % 2 = 1) THEN q + 1 ELSE q

\* strptime(s, '%Y-%m-%d').date(), as year, month and day; the ordinals
\* below 0 - EpochOffset are the days of December 2025
DateOf(d) ==
    IF d + EpochOffset >= 0 THEN DateFrom(2026, 1, d + EpochOffset)
    ELSE DateFrom(2025, 12, d + EpochOffset + 31)

\* datetime(year, month, day).date(), as a day ordinal
DayOrdinal(year, month, day) ==
    CHOOSE d \in (0 - EpochOffset - 31)..(MaxDate + 62) :
        DateOf(d) = [year |-> year, month |-> month, day |-> day]

\* round(x, 1) of x hundredths, in hundredths: to the nearest tenth, an exact
\* half to the even one
Round1(centi) ==
    IF centi >= 0 THEN 10 * PyRound(centi, 10) ELSE 0 - 10 * PyRound(0 - centi, 10)

-----------------------------------------------------------------------------
(* Reading the store: SELECT ... ORDER BY date DESC *)

\* s with x put before the first element that is dated before x
RECURSIVE InsertByDateDesc(_, _)
InsertByDateDesc(s, x) ==
    IF s = <<>> THEN <<x>>
    ELSE IF Head(s).date < x.date THEN <<x>> \o s
         ELSE <<Head(s)>> \o InsertByDateDesc(Tail(s), x)

RECURSIVE OrderByDateDesc(_)
OrderByDateDesc(rows) ==
    IF rows = <<>> THEN <<>>
    ELSE InsertByDateDesc(OrderByDateDesc(Tail(rows)), Head(rows))

\* fetch_exercises and fetch_all_exercises: 'types': [row['type']]
fetch_exercises(rows) ==
    LET sorted == OrderByDateDesc(rows)
    IN  [i \in 1..Len(sorted) |-> [date |-> sorted[i].date, types |-> <<sorted[i].type>>]]

\* fetch_weight_entries: weight is in hundredths of a kilogram
fetch_weight_entries(rows) ==
    LET sorted == OrderByDateDesc(rows)
    IN  [i \in 1..Len(sorted) |-> [date |-> sorted[i].date, weight |-> sorted[i].weight_kg]]

\* s with x put behind the last element that is not dated after x
RECURSIVE InsertByDate(_, _)
InsertByDate(s, x) ==
    IF s = <<>> THEN <<x>>
    ELSE IF s[Len(s)].date <= x.date THEN Append(s, x)
         ELSE Append(InsertByDate(SubSeq(s, 1, Len(s) - 1), x), s[Len(s)])

\* sorted(s, key=lambda x: x['date'])
RECURSIVE SortedByDate(_)
SortedByDate(s) ==
    IF s = <<>> THEN <<>>
    ELSE InsertByDate(SortedByDate(SubSeq(s, 1, Len(s) - 1)), s[Len(s)])

-----------------------------------------------------------------------------
(* generate_dashboard.py *)

\* sorted(set(...)): the days of S, oldest first
RECURSIVE SortedDays(_)
SortedDays(S) ==
    IF S = {} THEN <<>>
    ELSE LET m == SetMax(S) IN Append(SortedDays(S \ {m}), m)

\* StreakLoop with the bug of restarting a run at 0 instead of 1
RECURSIVE StreakLoopRestartsAtZero(_, _, _, _)
StreakLoopRestartsAtZero(date_objects, i, streaks, current_run) ==
    IF i > Len(date_objects) THEN <<streaks, current_run>>
    ELSE IF date_objects[i] - date_objects[i - 1] = 1
         THEN StreakLoopRestartsAtZero(date_objects, i + 1, streaks, current_run + 1)
         ELSE StreakLoopRestartsAtZero(date_objects, i + 1,
                         Append(streaks, <<current_run, date_objects[i - 1]>>), 0)

\* The loop of lines 69 to 74: the runs closed before date_objects[i] as
\* <<length, end_date>>, and the run that is open at i
RECURSIVE StreakLoop(_, _, _, _)
StreakLoop(date_objects, i, streaks, current_run) ==
    IF i > Len(date_objects) THEN <<streaks, current_run>>
    ELSE IF date_objects[i] - date_objects[i - 1] = 1
         THEN StreakLoop(date_objects, i + 1, streaks, current_run + 1)
         ELSE StreakLoop(date_objects, i + 1,
                         Append(streaks, <<current_run, date_objects[i - 1]>>), 1)

\* The list streaks after line 77
StreakRuns(date_objects) ==
    LET done == StreakLoop(date_objects, 2, <<>>, 1)
    IN  Append(done[1], <<done[2], date_objects[Len(date_objects)]>>)

\* calculate_streak with the bug of taking the first run for the longest
calculate_streak_first_run(exercises, now) ==
    IF exercises = <<>> THEN <<0, 0>>
    ELSE LET date_objects == SortedDays({e.date : e \in Range(exercises)})
             streaks == StreakRuns(date_objects)
             last_workout_date == date_objects[Len(date_objects)]
         IN  <<IF now - last_workout_date > 1 THEN 0 ELSE streaks[Len(streaks)][1],
               streaks[1][1]>>

\* calculate_streak with the bug of a longest streak that is forgotten when
\* the current one is broken
calculate_streak_forgets(exercises, now) ==
    IF exercises = <<>> THEN <<0, 0>>
    ELSE LET date_objects == SortedDays({e.date : e \in Range(exercises)})
             streaks == StreakRuns(date_objects)
             last_workout_date == date_objects[Len(date_objects)]
         IN  IF now - last_workout_date > 1 THEN <<0, 0>>
             ELSE <<streaks[Len(streaks)][1],
                    SetMax({streaks[i][1] : i \in 1..Len(streaks)})>>

\* calculate_streak: <<current_streak, longest_streak>>; now is
\* datetime.now().date()
calculate_streak(exercises, now) ==
    IF exercises = <<>> THEN <<0, 0>>
    ELSE LET date_objects == SortedDays({e.date : e \in Range(exercises)})
             streaks == StreakRuns(date_objects)
             longest_streak == SetMax({streaks[i][1] : i \in 1..Len(streaks)})
             last_workout_date == date_objects[Len(date_objects)]
             days_since_last == now - last_workout_date
             current_streak == IF days_since_last > 1 THEN 0
                               ELSE streaks[Len(streaks)][1]
         IN  <<current_streak, longest_streak>>

\* cardio_types of line 314
DashboardCardioTypes ==
    {"Run", "Walk", "Indoor Cycle", "Hike", "Trail Run", "Rucking", "Padel", "Tennis", "Golf"}

HasType(e, types) == \E i \in 1..Len(e.types) : e.types[i] \in types

\* last_7_days_exercises with the bug of a window that starts 6 days ago
last_7_days_from_six(exercises, now) ==
    SelectSeq(exercises, LAMBDA e : now - 6 <= e.date /\ e.date <= now - 1)

\* last_7_days_exercises of line 320
last_7_days_exercises(exercises, now) ==
    LET yesterday == now - 1
        six_days_ago == yesterday - 6
    IN  SelectSeq(exercises, LAMBDA e : six_days_ago <= e.date /\ e.date <= yesterday)

\* get_month_stats: weight_change is <<>> for None and <<x>> for x hundredths
\* of a kilogram
get_month_stats(year, month, exercises_list, weights_list, is_current_month, now) ==
    LET month_start == DayOrdinal(year, month, 1)
        month_end == IF month = 12 THEN DayOrdinal(year + 1, 1, 1)
                     ELSE DayOrdinal(year, month + 1, 1)
        days_in_month == month_end - month_start
        month_exercises ==
            SelectSeq(exercises_list, LAMBDA e : month_start <= e.date /\ e.date < month_end)
        month_weights ==
            SelectSeq(weights_list, LAMBDA w : month_start <= w.date /\ w.date < month_end)
        workout_dates == {e.date : e \in Range(month_exercises)}
        sorted_month_weights == SortedByDate(month_weights)
        last_weight_this_month == sorted_month_weights[Len(sorted_month_weights)].weight
        first_weight_this_month == sorted_month_weights[1].weight
        prev_month_weights == SelectSeq(weights_list, LAMBDA w : w.date < month_start)
        sorted_prev == SortedByDate(prev_month_weights)
        last_weight_prev_month == sorted_prev[Len(sorted_prev)].weight
    IN  [year |-> year,
         month |-> month,
         cardio |-> Len(SelectSeq(month_exercises,
                                  LAMBDA e : HasType(e, DashboardCardioTypes))),
         strength |-> Len(SelectSeq(month_exercises, LAMBDA e : HasType(e, {"Kettlebells"}))),
         rest_days |-> IF is_current_month
                       THEN DateOf(now).day - Cardinality(workout_dates)
                       ELSE days_in_month - Cardinality(workout_dates),
         weight_change |->
             IF month_weights = <<>> THEN <<>>
             ELSE IF prev_month_weights # <<>>
                  THEN <<Round1(last_weight_this_month - last_weight_prev_month)>>
                  ELSE IF year = 2026 /\ month = 1
                       THEN <<Round1(last_weight_this_month - first_weight_this_month)>>
                       ELSE <<>>]

\* sorted(all_months, reverse=True): the months of 2026 and later that have
\* an exercise, the latest first, as <<year, month>>
RECURSIVE sorted_months(_)
sorted_months(all_months) ==
    IF all_months = {} THEN <<>>
    ELSE LET top == SetMax({ym[1] * 12 + ym[2] : ym \in all_months})
             first == CHOOSE ym \in all_months : ym[1] * 12 + ym[2] = top
         IN  <<first>> \o sorted_months(all_months \ {first})

\* monthly_stats of lines 397 to 412
monthly_stats(exercises, weights, now) ==
    LET all_months == {<<DateOf(e.date).year, DateOf(e.date).month>> :
                          e \in {x \in Range(exercises) : DateOf(x.date).year >= 2026}}
        months == sorted_months(all_months)
    IN  [k \in 1..Len(months) |->
            get_month_stats(months[k][1], months[k][2], exercises, weights,
                            months[k][1] = DateOf(now).year /\ months[k][2] = DateOf(now).month,
                            now)]

\* prepare_weight_chart_data: the weights from 1 January 2026 on, by date
prepare_weight_chart_data(weights) ==
    LET start_date == DayOrdinal(2026, 1, 1)
        filtered == SelectSeq(weights, LAMBDA w : w.date >= start_date)
    IN  SortedByDate(filtered)

\* sum(x['weight'] for x in window)
RECURSIVE SumWeights(_)
SumWeights(window) ==
    IF window = <<>> THEN 0 ELSE window[1].weight + SumWeights(Tail(window))

\* weight_chart_with_avg with the bug of a window of the last 10 entries
\* whatever their dates
weight_chart_with_avg_by_count(weight_chart_data) ==
    LET sorted_weights_all == SortedByDate(weight_chart_data)
    IN  [k \in 1..Len(sorted_weights_all) |->
            LET w == sorted_weights_all[k]
                window == SubSeq(sorted_weights_all, IF k > 10 THEN k - 9 ELSE 1, k)
            IN  [date |-> w.date,
                 weight |-> w.weight,
                 rolling_avg |-> 10 * PyRound(SumWeights(window), 10 * Len(window))]]

\* weight_chart_with_avg with the bug of an average that is not rounded to
\* one decimal but cut to whole kilograms
weight_chart_with_avg_whole_kg(weight_chart_data) ==
    LET sorted_weights_all == SortedByDate(weight_chart_data)
    IN  [k \in 1..Len(sorted_weights_all) |->
            LET w == sorted_weights_all[k]
                ten_days_ago == w.date - 10
                window == SelectSeq(sorted_weights_all,
                                    LAMBDA x : ten_days_ago < x.date /\ x.date <= w.date)
            IN  [date |-> w.date,
                 weight |-> w.weight,
                 rolling_avg |-> 100 * (SumWeights(window) \div (100 * Len(window)))]]

\* weight_chart_with_avg of lines 451 to 465: rolling_avg is
\* round(sum / len(window), 1), in hundredths of a kilogram
weight_chart_with_avg(weight_chart_data) ==
    LET sorted_weights_all == SortedByDate(weight_chart_data)
    IN  [k \in 1..Len(sorted_weights_all) |->
            LET w == sorted_weights_all[k]
                current_date == w.date
                ten_days_ago == current_date - 10
                window == SelectSeq(sorted_weights_all,
                                    LAMBDA x : ten_days_ago < x.date /\ x.date <= current_date)
            IN  [date |-> w.date,
                 weight |-> w.weight,
                 rolling_avg |-> IF window # <<>>
                                 THEN 10 * PyRound(SumWeights(window), 10 * Len(window))
                                 ELSE w.weight]]

\* weight_change_30d of lines 415 to 421: <<>> for None
weight_change_30d(weights, now) ==
    LET thirty_days_ago == now - 30
        last_30_days_weights == SelectSeq(weights, LAMBDA w : w.date >= thirty_days_ago)
        sorted_weights_30d == SortedByDate(last_30_days_weights)
    IN  IF Len(last_30_days_weights) >= 2
        THEN <<Round1(sorted_weights_30d[Len(sorted_weights_30d)].weight
                      - sorted_weights_30d[1].weight)>>
        ELSE <<>>

target_weight == 8200

\* projection with the bug of projecting whenever the weight has changed
projection_on_any_change(weights, now) ==
    LET change == weight_change_30d(weights, now)
        kg_to_go == IF weights # <<>> THEN <<Round1(weights[1].weight - target_weight)>>
                    ELSE <<>>
    IN  IF /\ change # <<>> /\ change[1] # 0
           /\ kg_to_go # <<>> /\ kg_to_go[1] # 0 /\ kg_to_go[1] > 0
        THEN LET rate == IF change[1] < 0 THEN 0 - change[1] ELSE change[1]
                 days == (kg_to_go[1] * 30) \div rate
             IN  <<[days |-> days,
                    year |-> DateOf(now + days).year,
                    month |-> DateOf(now + days).month]>>
        ELSE <<>>

\* The projection of lines 440 to 449: <<>> for None, or the whole days that
\* timedelta(days=months_to_go * 30) adds to today and the year and month
\* that strftime('%b %Y') prints
projection(weights, now) ==
    LET latest_weight == IF weights # <<>> THEN <<weights[1].weight>> ELSE <<>>
        change == weight_change_30d(weights, now)
        kg_to_go == IF latest_weight # <<>> /\ latest_weight[1] # 0
                    THEN <<Round1(latest_weight[1] - target_weight)>>
                    ELSE <<>>
    IN  IF /\ change # <<>> /\ change[1] # 0 /\ change[1] < 0
           /\ kg_to_go # <<>> /\ kg_to_go[1] # 0 /\ kg_to_go[1] > 0
        THEN LET monthly_loss_rate == 0 - change[1]
                 days == (kg_to_go[1] * 30) \div monthly_loss_rate
             IN  <<[days |-> days,
                    year |-> DateOf(now + days).year,
                    month |-> DateOf(now + days).month]>>
        ELSE <<>>

\* latest_weight of line 305: <<>> for None
latest_weight_of(weights) ==
    IF weights # <<>> THEN <<weights[1].weight>> ELSE <<>>

\* weight_change_7d of lines 323 to 329: the latest weight less the latest
\* one dated six_days_ago or earlier, <<>> for None
weight_change_7d(weights, now) ==
    LET yesterday == now - 1
        six_days_ago == yesterday - 6
        older_weights_7d == SelectSeq(weights, LAMBDA w : w.date <= six_days_ago)
    IN  IF weights # <<>> /\ older_weights_7d # <<>>
        THEN <<Round1(weights[1].weight - older_weights_7d[1].weight)>>
        ELSE <<>>

\* round(num / den) for den > 0 and a num of either sign
RoundDiv(num, den) ==
    IF num >= 0 THEN PyRound(num, den) ELSE 0 - PyRound(0 - num, den)

\* total_lost_ytd of line 427, from the start weight of 97.5 kg: <<>> for None
total_lost_ytd(weights) ==
    LET latest_weight == latest_weight_of(weights)
    IN  IF latest_weight # <<>> /\ latest_weight[1] # 0
        THEN <<Round1(9750 - latest_weight[1])>>
        ELSE <<>>

\* avg_loss_per_week of lines 423 to 428, round(total_lost_ytd /
\* weeks_since_jan1, 2) in hundredths of a kilogram: <<>> for None
avg_loss_per_week(weights, now) ==
    LET days_since_jan1 == now - DayOrdinal(2026, 1, 1)
        lost == total_lost_ytd(weights)
    IN  IF lost # <<>> /\ lost[1] # 0 /\ days_since_jan1 > 0
        THEN <<RoundDiv(lost[1] * 7, days_since_jan1)>>
        ELSE <<>>

\* the text '--' that the reports print for a figure they do not have
Placeholder == [text |-> "--"]

\* a figure as the reports print it
Figure(x) == [number |-> x]

\* FigureOrPlaceholder with the bug of printing str(None) for a missing figure
FigureOrNone(x) ==
    IF x # <<>> /\ x[1] # 0 THEN Figure(x[1]) ELSE [text |-> "None"]

\* "x if x else '--'" of lines 596, 628, 632, 636 and 879, for a figure that
\* is <<>> for None
FigureOrPlaceholder(x) ==
    IF x # <<>> /\ x[1] # 0 THEN Figure(x[1]) ELSE Placeholder

\* the weight figures of the template, lines 596 to 636: the 30-day change
\* is printed as abs(weight_change_30d)
weight_figures(weights, now) ==
    LET change_30d == weight_change_30d(weights, now)
    IN  [weight_change_7d |-> FigureOrPlaceholder(weight_change_7d(weights, now)),
         avg_loss_per_week |-> FigureOrPlaceholder(avg_loss_per_week(weights, now)),
         weight_change_30d |->
             IF change_30d # <<>> /\ change_30d[1] # 0
             THEN Figure(IF change_30d[1] < 0 THEN 0 - change_30d[1] ELSE change_30d[1])
             ELSE Placeholder,
         latest_weight |-> FigureOrPlaceholder(latest_weight_of(weights))]

\* generate_monthly_sections: weight_display of line 879 of each month
generate_monthly_sections(stats_list) ==
    [k \in 1..Len(stats_list) |-> FigureOrPlaceholder(stats_list[k].weight_change)]

\* What a statement raises: nothing when it is not executed, exception when
\* it is executed on an operand it is not defined on
Raises(executed, undefined, exception) ==
    IF executed /\ undefined THEN <<exception>> ELSE <<>>

\* calculate_streak: date_objects[-1] of lines 77 and 83 is read after the
\* two returns of lines 52 and 58
calculate_streak_raises(exercises) ==
    LET dates == {e.date : e \in Range(exercises)}
    IN  Raises(exercises # <<>> /\ dates # {}, dates = {}, "IndexError")

\* get_month_stats: the elements read at lines 372, 373 and 380
get_month_stats_raises(year, month, weights_list) ==
    LET month_start == DayOrdinal(year, month, 1)
        month_end == IF month = 12 THEN DayOrdinal(year + 1, 1, 1)
                     ELSE DayOrdinal(year, month + 1, 1)
        month_weights ==
            SelectSeq(weights_list, LAMBDA w : month_start <= w.date /\ w.date < month_end)
        prev_month_weights == SelectSeq(weights_list, LAMBDA w : w.date < month_start)
    IN  Raises(month_weights # <<>>, month_weights = <<>>, "IndexError")
        \o Raises(month_weights # <<>> /\ prev_month_weights # <<>>,
                  prev_month_weights = <<>>, "IndexError")

\* avg_loss_per_week_raises with the bug of dividing by weeks_since_jan1
\* without asking whether it is positive
avg_loss_per_week_unguarded(weights, now) ==
    LET days_since_jan1 == now - DayOrdinal(2026, 1, 1)
        lost == total_lost_ytd(weights)
    IN  Raises(lost # <<>> /\ lost[1] # 0, days_since_jan1 = 0, "ZeroDivisionError")

\* the division of line 428
avg_loss_per_week_raises(weights, now) ==
    LET days_since_jan1 == now - DayOrdinal(2026, 1, 1)
        lost == total_lost_ytd(weights)
    IN  Raises(lost # <<>> /\ lost[1] # 0 /\ days_since_jan1 > 0,
               days_since_jan1 = 0, "ZeroDivisionError")

\* the division of line 448
projection_raises(weights, now) ==
    LET change == weight_change_30d(weights, now)
        kg_to_go == IF weights # <<>> /\ weights[1].weight # 0
                    THEN <<Round1(weights[1].weight - target_weight)>>
                    ELSE <<>>
        monthly_loss_rate == IF change[1] < 0 THEN 0 - change[1] ELSE change[1]
    IN  IF /\ change # <<>> /\ change[1] # 0 /\ change[1] < 0
           /\ kg_to_go # <<>> /\ kg_to_go[1] # 0 /\ kg_to_go[1] > 0
        THEN Raises(monthly_loss_rate > 0, monthly_loss_rate = 0, "ZeroDivisionError")
        ELSE <<>>

\* the division of line 460, for the entry of each weigh-in of the chart
rolling_avg_raises(weight_chart_data) ==
    LET sorted_weights_all == SortedByDate(weight_chart_data)
    IN  IF \E k \in 1..Len(sorted_weights_all) :
              LET window == SelectSeq(sorted_weights_all,
                                LAMBDA x : /\ sorted_weights_all[k].date - 10 < x.date
                                           /\ x.date <= sorted_weights_all[k].date)
              IN  Raises(window # <<>>, Len(window) = 0, "ZeroDivisionError") # <<>>
        THEN <<"ZeroDivisionError">>
        ELSE <<>>

\* The exceptions that the statements of generate_dashboard raise, in the
\* order of the statements: the elements of weights read at lines 305, 308,
\* 326 and 329, the months of lines 409 to 412, the elements read at line
\* 421, and the divisions of lines 428, 448 and 460
generate_dashboard_raises(exercises, weights, now) ==
    LET six_days_ago == (now - 1) - 6
        older_weights_7d == SelectSeq(weights, LAMBDA w : w.date <= six_days_ago)
        last_30_days_weights == SelectSeq(weights, LAMBDA w : w.date >= now - 30)
        all_months == {<<DateOf(e.date).year, DateOf(e.date).month>> :
                          e \in {x \in Range(exercises) : DateOf(x.date).year >= 2026}}
        months == sorted_months(all_months)
        RECURSIVE months_raise(_)
        months_raise(k) ==
            IF k > Len(months) THEN <<>>
            ELSE get_month_stats_raises(months[k][1], months[k][2], weights)
                 \o months_raise(k + 1)
    IN  calculate_streak_raises(exercises)
        \o Raises(weights # <<>>, weights = <<>>, "IndexError")
        \o Raises(Len(weights) >= 2, weights = <<>>, "IndexError")
        \o Raises(weights # <<>> /\ older_weights_7d # <<>>,
                  older_weights_7d = <<>>, "IndexError")
        \o months_raise(1)
        \o Raises(last_30_days_weights # <<>> /\ Len(last_30_days_weights) >= 2,
                  last_30_days_weights = <<>>, "IndexError")
        \o avg_loss_per_week_raises(weights, now)
        \o projection_raises(weights, now)
        \o rolling_avg_raises(prepare_weight_chart_data(weights))

\* generate_dashboard: the exception it raises or, when it raises none, the
\* statistics it derives from the activities and the weigh-ins and the
\* weight figures it prints
generate_dashboard(exercises, weights, now) ==
    LET raised == generate_dashboard_raises(exercises, weights, now)
        streak == calculate_streak(exercises, now)
        week == last_7_days_exercises(exercises, now)
    IN  IF raised # <<>> THEN [error |-> raised[1]]
        ELSE
        [error |-> None,
         current_streak |-> streak[1],
         longest_streak |-> streak[2],
         cardio_7d |-> Len(SelectSeq(week, LAMBDA e : HasType(e, DashboardCardioTypes))),
         strength_7d |-> Len(SelectSeq(week, LAMBDA e : HasType(e, {"Kettlebells"}))),
         monthly_stats |-> monthly_stats(exercises, weights, now),
         weight_change_30d |-> weight_change_30d(weights, now),
         projected_date |-> projection(weights, now),
         weight_chart_with_avg |->
             weight_chart_with_avg(prepare_weight_chart_data(weights)),
         weight_figures |-> weight_figures(weights, now),
         weight_displays |->
             generate_monthly_sections(monthly_stats(exercises, weights, now))]

-----------------------------------------------------------------------------
(* health_notifications.py *)

WEEKLY_CARDIO_GOAL == 4
WEEKLY_STRENGTH_GOAL == 3
MONTHLY_CARDIO_GOAL == 16
MONTHLY_STRENGTH_GOAL == 10
REST_DAY_WARNING == 2
REST_DAY_URGENT == 3
WEIGHIN_REMINDER_DAYS == 3

\* CARDIO_TYPES with the bug of holding the strength type too
CARDIO_TYPES_and_strength ==
    {"Run", "Walk", "Indoor Cycle", "Hike", "Trail Run", "Rucking", "Padel", "Tennis", "Golf",
     "Kettlebells"}

CARDIO_TYPES ==
    {"Run", "Walk", "Indoor Cycle", "Hike", "Trail Run", "Rucking", "Padel", "Tennis", "Golf"}

is_cardio(e) == HasType(e, CARDIO_TYPES)

is_strength(e) == HasType(e, {"Kettlebells"})

\* get_days_in_month: the day of the month of the day before the first of
\* the next month
get_days_in_month(year, month) ==
    IF month = 12 THEN 31 ELSE MonthLength(year, month)

\* the function objects is_cardio and is_strength that get_today_suggestion
\* hands to has_activity_in_last_n_days, on the exercises they are called on
is_cardio_fn(exercises) == [e \in Range(exercises) |-> is_cardio(e)]

is_strength_fn(exercises) == [e \in Range(exercises) |-> is_strength(e)]

\* has_activity_in_last_n_days with the bug of leaving out the records of
\* today, as the weekly counts do
has_activity_before_today(exercises, activity_check_fn, n_days, now) ==
    LET cutoff == now - n_days
        recent == SelectSeq(exercises, LAMBDA e : e.date > cutoff /\ e.date < now)
    IN  \E i \in 1..Len(recent) : activity_check_fn[recent[i]]

\* has_activity_in_last_n_days
has_activity_in_last_n_days(exercises, activity_check_fn, n_days, now) ==
    LET cutoff == now - n_days
        recent == SelectSeq(exercises, LAMBDA e : e.date > cutoff)
    IN  \E i \in 1..Len(recent) : activity_check_fn[recent[i]]

\* expected_pace with the bug of truncating instead of rounding
expected_pace_truncated(goal, day_of_month, days_in_month) ==
    (goal * day_of_month) \div days_in_month

\* round(goal * (day_of_month / days_in_month)), lines 138 to 140
expected_pace(goal, day_of_month, days_in_month) ==
    PyRound(goal * day_of_month, days_in_month)

\* get_today_suggestion with the bug of asking about the cardio that falls
\* off before the strength that falls off
suggestion_cardio_falls_first(rest_days, weekly_cardio, weekly_strength, monthly_cardio, monthly_strength, cardio_expected, strength_expected, exercises, now, falling_off_cardio, falling_off_strength) ==
    IF rest_days >= REST_DAY_URGENT
    THEN "Get moving! Even a 20min walk counts."
    ELSE IF rest_days >= REST_DAY_WARNING
    THEN "Time to move. Light cardio or kettlebells."
    ELSE IF falling_off_cardio /\ weekly_cardio <= WEEKLY_CARDIO_GOAL
    THEN "Cardio - replace what's falling off tomorrow"
    ELSE IF falling_off_strength /\ weekly_strength <= WEEKLY_STRENGTH_GOAL
    THEN "Kettlebells - replace what's falling off tomorrow"
    ELSE IF weekly_strength < WEEKLY_STRENGTH_GOAL - 1
            /\ ~has_activity_in_last_n_days(exercises, is_strength_fn(exercises), 2, now)
    THEN "Kettlebells - you're behind this week"
    ELSE IF weekly_cardio < WEEKLY_CARDIO_GOAL - 1
            /\ ~has_activity_in_last_n_days(exercises, is_cardio_fn(exercises), 2, now)
    THEN "Cardio session - you're behind this week"
    ELSE IF monthly_strength < strength_expected - 1
    THEN "Kettlebells session"
    ELSE IF monthly_cardio < cardio_expected - 1
    THEN "MAF cardio (walk, run, or cycle)"
    ELSE IF ~has_activity_in_last_n_days(exercises, is_strength_fn(exercises), 3, now)
    THEN "Kettlebells (none in last 3 days)"
    ELSE IF ~has_activity_in_last_n_days(exercises, is_cardio_fn(exercises), 3, now)
    THEN "Easy cardio for recovery"
    ELSE "On track. Rest or light movement."

\* get_today_suggestion with the bug of asking about the monthly cardio
\* before the monthly strength
suggestion_monthly_cardio_first(rest_days, weekly_cardio, weekly_strength, monthly_cardio, monthly_strength, cardio_expected, strength_expected, exercises, now, falling_off_cardio, falling_off_strength) ==
    IF rest_days >= REST_DAY_URGENT
    THEN "Get moving! Even a 20min walk counts."
    ELSE IF rest_days >= REST_DAY_WARNING
    THEN "Time to move. Light cardio or kettlebells."
    ELSE IF falling_off_strength /\ weekly_strength <= WEEKLY_STRENGTH_GOAL
    THEN "Kettlebells - replace what's falling off tomorrow"
    ELSE IF falling_off_cardio /\ weekly_cardio <= WEEKLY_CARDIO_GOAL
    THEN "Cardio - replace what's falling off tomorrow"
    ELSE IF weekly_strength < WEEKLY_STRENGTH_GOAL - 1
            /\ ~has_activity_in_last_n_days(exercises, is_strength_fn(exercises), 2, now)
    THEN "Kettlebells - you're behind this week"
    ELSE IF weekly_cardio < WEEKLY_CARDIO_GOAL - 1
            /\ ~has_activity_in_last_n_days(exercises, is_cardio_fn(exercises), 2, now)
    THEN "Cardio session - you're behind this week"
    ELSE IF monthly_cardio < cardio_expected - 1
    THEN "MAF cardio (walk, run, or cycle)"
    ELSE IF monthly_strength < strength_expected - 1
    THEN "Kettlebells session"
    ELSE IF ~has_activity_in_last_n_days(exercises, is_strength_fn(exercises), 3, now)
    THEN "Kettlebells (none in last 3 days)"
    ELSE IF ~has_activity_in_last_n_days(exercises, is_cardio_fn(exercises), 3, now)
    THEN "Easy cardio for recovery"
    ELSE "On track. Rest or light movement."

\* get_today_suggestion
get_today_suggestion(rest_days, weekly_cardio, weekly_strength, monthly_cardio, monthly_strength, cardio_expected, strength_expected, exercises, now, falling_off_cardio, falling_off_strength) ==
    IF rest_days >= REST_DAY_URGENT
    THEN "Get moving! Even a 20min walk counts."
    ELSE IF rest_days >= REST_DAY_WARNING
    THEN "Time to move. Light cardio or kettlebells."
    ELSE IF falling_off_strength /\ weekly_strength <= WEEKLY_STRENGTH_GOAL
    THEN "Kettlebells - replace what's falling off tomorrow"
    ELSE IF falling_off_cardio /\ weekly_cardio <= WEEKLY_CARDIO_GOAL
    THEN "Cardio - replace what's falling off tomorrow"
    ELSE IF weekly_strength < WEEKLY_STRENGTH_GOAL - 1
            /\ ~has_activity_in_last_n_days(exercises, is_strength_fn(exercises), 2, now)
    THEN "Kettlebells - you're behind this week"
    ELSE IF weekly_cardio < WEEKLY_CARDIO_GOAL - 1
            /\ ~has_activity_in_last_n_days(exercises, is_cardio_fn(exercises), 2, now)
    THEN "Cardio session - you're behind this week"
    ELSE IF monthly_strength < strength_expected - 1
    THEN "Kettlebells session"
    ELSE IF monthly_cardio < cardio_expected - 1
    THEN "MAF cardio (walk, run, or cycle)"
    ELSE IF ~has_activity_in_last_n_days(exercises, is_strength_fn(exercises), 3, now)
    THEN "Kettlebells (none in last 3 days)"
    ELSE IF ~has_activity_in_last_n_days(exercises, is_cardio_fn(exercises), 3, now)
    THEN "Easy cardio for recovery"
    ELSE "On track. Rest or light movement."

\* week_exercises of lines 103 to 108
week_exercises(exercises, now) ==
    LET yesterday == now - 1
        seven_days_ago == now - 7
    IN  SelectSeq(exercises, LAMBDA e : seven_days_ago <= e.date /\ e.date <= yesterday)

\* falling_off_exercises with the bug of taking the day that leaves the
\* window tomorrow, 7 days ago
falling_off_seven_days_ago(exercises, now) ==
    SelectSeq(exercises, LAMBDA e : e.date = now - 7)

\* falling_off_exercises of lines 114 to 118
falling_off_exercises(exercises, now) ==
    LET eight_days_ago == now - 8
    IN  SelectSeq(exercises, LAMBDA e : e.date = eight_days_ago)

\* rest_days_of with the bug of not counting today as a rest day
rest_days_before_today(exercises, now) ==
    LET workout_dates == {e.date : e \in Range(exercises)}
    IN  IF workout_dates = {} THEN 0 ELSE now - 1 - SetMax(workout_dates)

\* rest_days of lines 143 to 147
rest_days_of(exercises, now) ==
    LET workout_dates == {e.date : e \in Range(exercises)}
    IN  IF workout_dates = {} THEN 0 ELSE now - SetMax(workout_dates)

\* monthly_progress with the bug of a marker without the slack of one
monthly_progress_no_slack(monthly_cardio, monthly_strength, day_of_month, days_in_month) ==
    LET cardio_expected == expected_pace(MONTHLY_CARDIO_GOAL, day_of_month, days_in_month)
        strength_expected == expected_pace(MONTHLY_STRENGTH_GOAL, day_of_month, days_in_month)
        remaining_days == days_in_month - day_of_month
        cardio_issue ==
            IF remaining_days > 0 /\ monthly_cardio < cardio_expected - 1
            THEN <<[about |-> "cardio",
                    per_week |-> PyRound(70 * (MONTHLY_CARDIO_GOAL - monthly_cardio),
                                         remaining_days)]>>
            ELSE <<>>
        strength_issue ==
            IF remaining_days > 0 /\ monthly_strength < strength_expected - 1
            THEN <<[about |-> "strength",
                    per_week |-> PyRound(70 * (MONTHLY_STRENGTH_GOAL - monthly_strength),
                                         remaining_days)]>>
            ELSE <<>>
    IN  [cardio_expected |-> cardio_expected,
         strength_expected |-> strength_expected,
         monthly_cardio_status |->
             IF monthly_cardio >= cardio_expected THEN "check" ELSE "warning",
         monthly_strength_status |->
             IF monthly_strength >= strength_expected THEN "check" ELSE "warning",
         pace_issues |-> cardio_issue \o strength_issue]

\* The monthly part of build_daily_message, lines 137 to 140 and 186 to 205:
\* the expected paces, the two markers ("check" for the check mark, "warning"
\* for the warning sign) and the pace alerts.  per_week is
\* round(needed / (remaining_days / 7), 1) in tenths, for a needed >= 0.
monthly_progress(monthly_cardio, monthly_strength, day_of_month, days_in_month) ==
    LET cardio_expected == expected_pace(MONTHLY_CARDIO_GOAL, day_of_month, days_in_month)
        strength_expected == expected_pace(MONTHLY_STRENGTH_GOAL, day_of_month, days_in_month)
        remaining_days == days_in_month - day_of_month
        cardio_issue ==
            IF remaining_days > 0 /\ monthly_cardio < cardio_expected - 1
            THEN <<[about |-> "cardio",
                    per_week |-> PyRound(70 * (MONTHLY_CARDIO_GOAL - monthly_cardio),
                                         remaining_days)]>>
            ELSE <<>>
        strength_issue ==
            IF remaining_days > 0 /\ monthly_strength < strength_expected - 1
            THEN <<[about |-> "strength",
                    per_week |-> PyRound(70 * (MONTHLY_STRENGTH_GOAL - monthly_strength),
                                         remaining_days)]>>
            ELSE <<>>
    IN  [cardio_expected |-> cardio_expected,
         strength_expected |-> strength_expected,
         monthly_cardio_status |->
             IF monthly_cardio >= cardio_expected - 1 THEN "check" ELSE "warning",
         monthly_strength_status |->
             IF monthly_strength >= strength_expected - 1 THEN "check" ELSE "warning",
         pace_issues |-> cardio_issue \o strength_issue]

\* The weight figures of lines 149 to 169, each <<>> for None: the changes
\* are the latest weight less the latest one dated seven_days_ago or
\* thirty_days_ago or earlier
notification_weight(weights, now) ==
    LET seven_days_ago == now - 7
        thirty_days_ago == now - 30
        older_weights_7d == SelectSeq(weights, LAMBDA w : w.date <= seven_days_ago)
        older_weights_30d == SelectSeq(weights, LAMBDA w : w.date <= thirty_days_ago)
    IN  [days_since_weighin |-> IF weights # <<>> THEN <<now - weights[1].date>> ELSE <<>>,
         latest_weight |-> IF weights # <<>> THEN <<weights[1].weight>> ELSE <<>>,
         weight_7d_change |->
             IF weights # <<>> /\ older_weights_7d # <<>>
             THEN <<Round1(weights[1].weight - older_weights_7d[1].weight)>>
             ELSE <<>>,
         weight_30d_change |->
             IF weights # <<>> /\ older_weights_30d # <<>>
             THEN <<Round1(weights[1].weight - older_weights_30d[1].weight)>>
             ELSE <<>>]

\* one entry of weight_changes, lines 227 to 232: the arrow and abs(change)
weight_change_entry(period, change) ==
    [period |-> period,
     dir |-> IF change < 0 THEN "down" ELSE IF change > 0 THEN "up" ELSE "same",
     kg |-> IF change < 0 THEN 0 - change ELSE change]

\* The lines of the weight section after its blank line, lines 220 to 234
weight_section(w) ==
    IF w.days_since_weighin # <<>> /\ w.days_since_weighin[1] >= WEIGHIN_REMINDER_DAYS
    THEN <<[no_weighin_for |-> w.days_since_weighin[1]]>>
    ELSE IF w.latest_weight # <<>> /\ w.latest_weight[1] # 0
    THEN LET weight_changes ==
                 (IF w.weight_7d_change # <<>>
                  THEN <<weight_change_entry("7d", w.weight_7d_change[1])>> ELSE <<>>)
                 \o (IF w.weight_30d_change # <<>>
                     THEN <<weight_change_entry("30d", w.weight_30d_change[1])>> ELSE <<>>)
         IN  <<Figure(w.latest_weight[1])>>
             \o (IF weight_changes # <<>> THEN <<[weight_changes |-> weight_changes]>>
                 ELSE <<>>)
    ELSE <<>>

\* The exceptions that the statements of build_daily_message raise, in the
\* order of the statements: datetime(year, month + 1, 1) of line 81, the
\* division of line 138, the elements read at lines 146, 156, 163 and 169,
\* and the divisions of lines 199 and 204
build_daily_message_raises(exercises, weights, now) ==
    LET month_start == now - (DateOf(now).day - 1)
        day_of_month == DateOf(now).day
        days_in_month == get_days_in_month(DateOf(now).year, DateOf(now).month)
        month_exercises == SelectSeq(exercises, LAMBDA e : e.date >= month_start)
        monthly_cardio == Len(SelectSeq(month_exercises, is_cardio))
        monthly_strength == Len(SelectSeq(month_exercises, is_strength))
        cardio_expected == expected_pace(MONTHLY_CARDIO_GOAL, day_of_month, days_in_month)
        strength_expected == expected_pace(MONTHLY_STRENGTH_GOAL, day_of_month, days_in_month)
        workout_dates == {e.date : e \in Range(exercises)}
        older_weights_7d == SelectSeq(weights, LAMBDA w : w.date <= now - 7)
        older_weights_30d == SelectSeq(weights, LAMBDA w : w.date <= now - 30)
        remaining_days == days_in_month - day_of_month
    IN  Raises(DateOf(now).month # 12, DateOf(now).month + 1 > 12, "ValueError")
        \o Raises(TRUE, days_in_month = 0, "ZeroDivisionError")
        \o Raises(workout_dates # {}, workout_dates = {}, "IndexError")
        \o Raises(weights # <<>>, weights = <<>>, "IndexError")
        \o Raises(weights # <<>> /\ older_weights_7d # <<>>,
                  older_weights_7d = <<>>, "IndexError")
        \o Raises(weights # <<>> /\ older_weights_30d # <<>>,
                  older_weights_30d = <<>>, "IndexError")
        \o Raises(remaining_days > 0 /\ monthly_cardio < cardio_expected - 1,
                  remaining_days = 0, "ZeroDivisionError")
        \o Raises(remaining_days > 0 /\ monthly_strength < strength_expected - 1,
                  remaining_days = 0, "ZeroDivisionError")

\* build_daily_message: the exception it raises or, when it raises none, the
\* statistics it derives from the activities and the weigh-ins, and the
\* suggestion it ends with
build_daily_message(exercises, weights, now) ==
    LET raised == build_daily_message_raises(exercises, weights, now)
        weight == notification_weight(weights, now)
        week == week_exercises(exercises, now)
        weekly_cardio == Len(SelectSeq(week, is_cardio))
        weekly_strength == Len(SelectSeq(week, is_strength))
        falling == falling_off_exercises(exercises, now)
        falling_off_cardio == \E i \in 1..Len(falling) : is_cardio(falling[i])
        falling_off_strength == \E i \in 1..Len(falling) : is_strength(falling[i])
        month_start == now - (DateOf(now).day - 1)
        day_of_month == DateOf(now).day
        days_in_month == get_days_in_month(DateOf(now).year, DateOf(now).month)
        month_exercises == SelectSeq(exercises, LAMBDA e : e.date >= month_start)
        monthly_cardio == Len(SelectSeq(month_exercises, is_cardio))
        monthly_strength == Len(SelectSeq(month_exercises, is_strength))
        progress == monthly_progress(monthly_cardio, monthly_strength, day_of_month,
                                     days_in_month)
        cardio_expected == progress.cardio_expected
        strength_expected == progress.strength_expected
        rest_days == rest_days_of(exercises, now)
    IN  IF raised # <<>> THEN [error |-> raised[1]]
        ELSE
        [error |-> None,
         weekly_cardio |-> weekly_cardio,
         weekly_strength |-> weekly_strength,
         falling_off_cardio |-> falling_off_cardio,
         falling_off_strength |-> falling_off_strength,
         monthly_cardio |-> monthly_cardio,
         monthly_strength |-> monthly_strength,
         cardio_expected |-> cardio_expected,
         strength_expected |-> strength_expected,
         monthly_cardio_status |-> progress.monthly_cardio_status,
         monthly_strength_status |-> progress.monthly_strength_status,
         pace_issues |-> progress.pace_issues,
         rest_days |-> rest_days,
         days_since_weighin |-> weight.days_since_weighin,
         latest_weight |-> weight.latest_weight,
         weight_7d_change |-> weight.weight_7d_change,
         weight_30d_change |-> weight.weight_30d_change,
         weight_section |-> weight_section(weight),
         suggestion |-> get_today_suggestion(rest_days, weekly_cardio, weekly_strength,
                            monthly_cardio, monthly_strength, cardio_expected,
                            strength_expected, exercises, now,
                            falling_off_cardio, falling_off_strength)]

-----------------------------------------------------------------------------
(* The Garmin service, as the importer sees it *)

\* One raw activity of client.get_activities: the keys the importer reads
RawActivity(id, name, start, key, duration) ==
    [activityId |-> id, activityName |-> name, startTimeLocal |-> start,
     typeKey |-> key, duration |-> duration]

\* One entry of dateWeightList: weight is in grams
RawWeight(date, grams) == [calendarDate |-> date, weight |-> grams]

\* activityId of the activities the service holds
ExternalIds == {1, 2}

\* Well-formed activities: each id on either of the last two days, the
\* earlier one a run and the later one a strength session
RegularActivities ==
    {RawActivity(id, "name", MaxDate - 1, "running", 1800) : id \in ExternalIds}
    \cup {RawActivity(id, "name", MaxDate, "strength_training", 1800) : id \in ExternalIds}

\* Activities that take one of the other paths through the importer
SpecialActivities ==
    { RawActivity(2, "name", MaxDate, "Sleep", 1800),              \* skip-listed
      RawActivity(2, "name", MaxDate, "yoga", 1800),               \* unmapped key
      RawActivity(1, "name", MaxDate - DAYS_TO_SYNC, "running", 1800), \* too old
      RawActivity(Missing, "name", MaxDate, "running", 1800),      \* no activityId
      RawActivity(1, "name", Malformed, "running", 1800),          \* bad timestamp
      RawActivity(1, "name", MaxDate, BadKey, 1800),               \* activityType null
      RawActivity(1, "name", MaxDate, "running", Malformed),       \* bad duration
      RawActivity(1, None, MaxDate, "running", 1800) }             \* activityName null

UpstreamActivities == RegularActivities \cup SpecialActivities

UpstreamWeights ==
    { RawWeight(MaxDate, 90120), RawWeight(MaxDate, 89500),
      RawWeight(MaxDate - 1, 90120),
      RawWeight(MaxDate, 0),          \* no weight in the entry
      RawWeight(Missing, 90120) }     \* no calendarDate in the entry

NoUpstream == [activities |-> <<>>, weights |-> <<>>]

NotRun == [error |-> "NotRun"]

-----------------------------------------------------------------------------
(* The importer's state machine *)

Init ==
    /\ activities = <<>>
    /\ weigh_ins = <<>>
    /\ upstream = NoUpstream
    /\ result = NotRun
    /\ today = MaxDate
    /\ dash = NotRun
    /\ msg = NotRun
    /\ sug_in = NotRun
    /\ suggestion = None

UpstreamSize == Len(upstream.activities) + Len(upstream.weights)

\* An activity is recorded at the service
GarminRecords(a) ==
    /\ UpstreamSize < MaxBatch
    /\ upstream' = [upstream EXCEPT !.activities = Append(@, a)]
    /\ result' = NotRun
    /\ UNCHANGED <<activities, weigh_ins, today, dash, msg, sug_in, suggestion>>

\* A weigh-in is recorded at the service
GarminWeighs(w) ==
    /\ UpstreamSize < MaxBatch
    /\ upstream' = [upstream EXCEPT !.weights = Append(@, w)]
    /\ result' = NotRun
    /\ UNCHANGED <<activities, weigh_ins, today, dash, msg, sug_in, suggestion>>

\* The service no longer returns what it held
GarminForgets ==
    /\ upstream # NoUpstream
    /\ upstream' = NoUpstream
    /\ result' = NotRun
    /\ UNCHANGED <<activities, weigh_ins, today, dash, msg, sug_in, suggestion>>

\* One run of sync_garmin
Sync ==
    LET st == sync_garmin(activities, weigh_ins, upstream, today)
    IN  /\ activities' = st.activities
        /\ weigh_ins' = st.weigh_ins
        /\ result' = SyncReturn(st)
        /\ UNCHANGED <<upstream, today, dash, msg, sug_in, suggestion>>

Next ==
    \/ \E a \in UpstreamActivities : GarminRecords(a)
    \/ \E w \in UpstreamWeights : GarminWeighs(w)
    \/ GarminForgets
    \/ Sync

Spec == Init /\ [][Next]_vars


-----------------------------------------------------------------------------
(* The reports, run on a store that the importer has filled *)

StoredTypes == {"Run", "Kettlebells"}

\* Tables of n rows with external ids "1" to "n", imported in the order of
\* their days
Histories(n) ==
    {[i \in 1..n |-> ActivityRow(ToString(i), f[i][1], f[i][2])] :
        f \in {g \in [1..n -> (0..MaxDate) \X StoredTypes] :
                 \A i \in 1..(n - 1) : g[i][1] <= g[i + 1][1]}}

InitReports ==
    /\ activities \in UNION {Histories(n) : n \in 0..MaxRows}
    /\ weigh_ins = <<>>
    /\ upstream = NoUpstream
    /\ result = NotRun
    /\ today \in {MaxDate - 1, MaxDate}
    /\ dash = NotRun
    /\ msg = NotRun
    /\ sug_in = NotRun
    /\ suggestion = None

\* One run of generate_dashboard.py
GenerateDashboard ==
    /\ dash' = generate_dashboard(fetch_exercises(activities),
                                fetch_weight_entries(weigh_ins), today)
    /\ UNCHANGED <<activities, weigh_ins, upstream, result, today, msg, sug_in, suggestion>>

\* One run of health_notifications.py
BuildDailyMessage ==
    /\ msg' = build_daily_message(fetch_exercises(activities),
                                  fetch_weight_entries(weigh_ins), today)
    /\ UNCHANGED <<activities, weigh_ins, upstream, result, today, dash, sug_in, suggestion>>

NextReports == GenerateDashboard \/ BuildDailyMessage

SpecReports == InitReports /\ [][NextReports]_vars

-----------------------------------------------------------------------------
(* get_today_suggestion on its own *)

\* exercises as fetch_exercises returns them, latest first, on the last
\* four days
RecentExercises ==
    LET one == [date : (MaxDate - 3)..MaxDate, types : {<<"Run">>, <<"Kettlebells">>}]
    IN  UNION {{s \in [1..n -> one] : \A i \in 1..(n - 1) : s[i].date >= s[i + 1].date} :
                  n \in 0..MaxRecent}

\* The arguments of a call: the two expected paces are those of lines 138 to
\* 140 on day_of_month of a month of days_in_month days
SuggestionInputs ==
    {[error |-> None,
      rest_days |-> c.rest_days,
      weekly_cardio |-> c.weekly_cardio,
      weekly_strength |-> c.weekly_strength,
      monthly_cardio |-> c.monthly_cardio,
      monthly_strength |-> c.monthly_strength,
      day_of_month |-> c.day_of_month,
      days_in_month |-> 30,
      cardio_expected |-> expected_pace(MONTHLY_CARDIO_GOAL, c.day_of_month, 30),
      strength_expected |-> expected_pace(MONTHLY_STRENGTH_GOAL, c.day_of_month, 30),
      exercises |-> c.exercises,
      falling_off_cardio |-> c.falling_off_cardio,
      falling_off_strength |-> c.falling_off_strength] :
     c \in [rest_days : 0..MaxRestDays,
            weekly_cardio : (WEEKLY_CARDIO_GOAL - 2)..(WEEKLY_CARDIO_GOAL + 1),
            weekly_strength : (WEEKLY_STRENGTH_GOAL - 2)..(WEEKLY_STRENGTH_GOAL + 1),
            monthly_cardio : {5, 7},
            monthly_strength : {3, 4},
            day_of_month : {15, 18},
            exercises : RecentExercises,
            falling_off_cardio : BOOLEAN,
            falling_off_strength : BOOLEAN]}

InitSuggest ==
    /\ activities = <<>>
    /\ weigh_ins = <<>>
    /\ upstream = NoUpstream
    /\ result = NotRun
    /\ today = MaxDate
    /\ dash = NotRun
    /\ msg = NotRun
    /\ sug_in \in SuggestionInputs
    /\ suggestion = None

\* One call of get_today_suggestion
Suggest ==
    /\ suggestion = None
    /\ suggestion' = get_today_suggestion(sug_in.rest_days, sug_in.weekly_cardio,
                         sug_in.weekly_strength, sug_in.monthly_cardio,
                         sug_in.monthly_strength, sug_in.cardio_expected,
                         sug_in.strength_expected, sug_in.exercises, today,
                         sug_in.falling_off_cardio, sug_in.falling_off_strength)
    /\ UNCHANGED <<activities, weigh_ins, upstream, result, today, dash, msg, sug_in>>

NextSuggest == Suggest

SpecSuggest == InitSuggest /\ [][NextSuggest]_vars


-----------------------------------------------------------------------------
(* The monthly part of the notification on its own *)

\* the monthly counts handed in are 0..MaxMonthly
MaxMonthly == 8

\* the months of 2026, and the February of the leap year 2028
PaceMonths == ({2026} \X (1..12)) \cup {<<2028, 2>>}

\* A day of one of these months and the two monthly counts on that day
PaceInputs ==
    {[error |-> None, year |-> ym[1], month |-> ym[2], day_of_month |-> d,
      monthly_cardio |-> c, monthly_strength |-> k] :
     ym \in PaceMonths, d \in 1..31, c \in 0..MaxMonthly, k \in 0..MaxMonthly}

InitPace ==
    /\ activities = <<>>
    /\ weigh_ins = <<>>
    /\ upstream = NoUpstream
    /\ result = NotRun
    /\ today = MaxDate
    /\ dash = NotRun
    /\ msg = NotRun
    /\ sug_in \in {p \in PaceInputs : p.day_of_month <= MonthLength(p.year, p.month)}
    /\ suggestion = None

\* The monthly lines of build_daily_message and its suggestion, on a day that
\* has a cardio and a strength session and whose weekly goals are met
MonthlyPace ==
    /\ msg.error = "NotRun"
    /\ LET days_in_month == get_days_in_month(sug_in.year, sug_in.month)
           progress == monthly_progress(sug_in.monthly_cardio, sug_in.monthly_strength,
                                        sug_in.day_of_month, days_in_month)
           exercises == <<[date |-> today, types |-> <<"Run">>],
                          [date |-> today, types |-> <<"Kettlebells">>]>>
       IN  /\ msg' = [error |-> None,
                      days_in_month |-> days_in_month,
                      cardio_expected |-> progress.cardio_expected,
                      strength_expected |-> progress.strength_expected,
                      monthly_cardio_status |-> progress.monthly_cardio_status,
                      monthly_strength_status |-> progress.monthly_strength_status,
                      pace_issues |-> progress.pace_issues]
           /\ suggestion' = get_today_suggestion(0, WEEKLY_CARDIO_GOAL, WEEKLY_STRENGTH_GOAL,
                                sug_in.monthly_cardio, sug_in.monthly_strength,
                                progress.cardio_expected, progress.strength_expected,
                                exercises, today, FALSE, FALSE)
    /\ UNCHANGED <<activities, weigh_ins, upstream, result, today, dash, sug_in>>

NextPace == MonthlyPace

SpecPace == InitPace /\ [][NextPace]_vars

-----------------------------------------------------------------------------
(* The dashboard's weight statistics, on a store that holds weigh-ins *)

\* the day ordinal of 2026-01-01
NewYear == 0 - EpochOffset

\* The days that have a weigh-in: two days before the new year, the second
\* of January, the day ten days after the first of these, the last day of
\* the model and the day after it, which are days of February
WeighInDays == <<NewYear - 2, NewYear + 1, NewYear + 8, MaxDate, MaxDate + 1>>

\* weight_kg as create_weight_entry stores it, in hundredths of a kilogram
StoredWeights == {8150, 8202, 8946, 8950, 9110}

\* The weigh_ins tables: none or one row on each of the WeighInDays, in the
\* order of the days
RECURSIVE WeighInTables(_)
WeighInTables(k) ==
    IF k = 0 THEN {<<>>}
    ELSE LET before == WeighInTables(k - 1)
         IN  before \cup {Append(t, WeighInRow(WeighInDays[k], w)) :
                             t \in before, w \in StoredWeights}

\* The activities tables: none, a run on the last day, or a run on the first
\* and one on the last day
ExerciseTables ==
    { <<>>,
      <<ActivityRow("1", MaxDate, "Run")>>,
      <<ActivityRow("1", 0, "Run"), ActivityRow("2", MaxDate, "Run")>> }

InitWeights ==
    /\ activities \in ExerciseTables
    /\ weigh_ins \in WeighInTables(Len(WeighInDays))
    /\ upstream = NoUpstream
    /\ result = NotRun
    /\ today \in {MaxDate, MaxDate + 1}
    /\ dash = NotRun
    /\ msg = NotRun
    /\ sug_in = NotRun
    /\ suggestion = None

NextWeights == GenerateDashboard

SpecWeights == InitWeights /\ [][NextWeights]_vars

-----------------------------------------------------------------------------
(* The two reports on a store that holds activities and weigh-ins, on the  *)
(* reference dates at the edges of a month and of the year                 *)

\* 2025-12-31, 2026-01-01, 2026-01-31, 2026-02-01 and 2026-02-02
EdgeDates == {NewYear - 1, NewYear, NewYear + 30, NewYear + 31, NewYear + 32}

\* The activities tables: none, one activity, and two on the two sides of
\* the end of January
EdgeExercises ==
    { <<>>,
      <<ActivityRow("1", NewYear - 1, "Walk")>>,
      <<ActivityRow("1", NewYear, "Run")>>,
      <<ActivityRow("1", NewYear + 30, "Kettlebells")>>,
      <<ActivityRow("1", NewYear + 30, "Run"), ActivityRow("2", NewYear + 31, "Kettlebells")>> }

\* The weigh_ins tables with the weights 82.02, 89.46 and 91.10 kg
EdgeWeighIns ==
    {t \in WeighInTables(Len(WeighInDays)) :
        \A i \in 1..Len(t) : t[i].weight_kg \in {8202, 8946, 9110}}

\* A record is dated no later than the day after the reference date, which
\* is the date of a record of a time zone ahead of the clock of the reports
InitConsumers ==
    /\ today \in EdgeDates
    /\ activities \in {t \in EdgeExercises : \A i \in 1..Len(t) : t[i].date <= today + 1}
    /\ weigh_ins \in {t \in EdgeWeighIns : \A i \in 1..Len(t) : t[i].date <= today + 1}
    /\ upstream = NoUpstream
    /\ result = NotRun
    /\ dash = NotRun
    /\ msg = NotRun
    /\ sug_in = NotRun
    /\ suggestion = None

NextConsumers == GenerateDashboard \/ BuildDailyMessage

SpecConsumers == InitConsumers /\ [][NextConsumers]_vars

-----------------------------------------------------------------------------
(* The daily routine: imports, the two reports, and the passing of days   *)

\* the type keys of the activities that the service returns here: a run, a
\* strength session, a round of golf, and a key that is not in GARMIN_TO_TYPE
DailyKeys == {"running", "strength_training", "golf", "yoga"}

\* the reference dates are 0..LastDay
LastDay == MaxDate + 1

InitDaily ==
    /\ activities = <<>>
    /\ weigh_ins = <<>>
    /\ upstream = NoUpstream
    /\ result = NotRun
    /\ today = 0
    /\ dash = NotRun
    /\ msg = NotRun
    /\ sug_in = NotRun
    /\ suggestion = None

\* One run of sync_garmin that finds one new activity at the service.  The
\* activity started yesterday, today or, by the clock of a time zone that is
\* ahead of the importer's, tomorrow.
Import ==
    /\ Len(activities) < MaxRecent
    /\ \E start \in {today - 1, today, today + 1}, key \in DailyKeys :
          LET a == RawActivity(Len(activities) + 1, "name", start, key, 1800)
              st == sync_garmin(activities, weigh_ins,
                                [activities |-> <<a>>, weights |-> <<>>], today)
          IN  /\ activities' = st.activities
              /\ weigh_ins' = st.weigh_ins
              /\ result' = SyncReturn(st)
    /\ dash' = NotRun
    /\ msg' = NotRun
    /\ UNCHANGED <<upstream, today, sug_in, suggestion>>

\* Midnight: the reports of the day before are no longer those of today
NextDay ==
    /\ today < LastDay
    /\ today' = today + 1
    /\ dash' = NotRun
    /\ msg' = NotRun
    /\ UNCHANGED <<activities, weigh_ins, upstream, result, sug_in, suggestion>>

NextDaily == Import \/ NextDay \/ GenerateDashboard \/ BuildDailyMessage

SpecDaily == InitDaily /\ [][NextDaily]_vars

-----------------------------------------------------------------------------
(* Claims about calculate_streak and the rolling 7-day window, checked     *)
(* under SpecReports                                                       *)

\* the distinct days that have at least one activity in the store
ActivityDays == {activities[i].date : i \in 1..Len(activities)}

\* the number of consecutive days of D that end with day d of D
RunEndingAt(D, d) ==
    Cardinality({k \in 1..(MaxDate + 1) : \A j \in 0..(k - 1) : (d - j) \in D})

\* the length of the longest run of consecutive days of D
LongestRunOf(D) == IF D = {} THEN 0 ELSE SetMax({RunEndingAt(D, d) : d \in D})

\* C1: the current streak is the length of the run of consecutive days that
\* ends at the most recent activity day when that day is the reference date
\* or the day before it, and 0 otherwise.
C1_CurrentStreak ==
    dash.error = None =>
        dash.current_streak =
            IF ActivityDays = {} THEN 0
            ELSE LET last == SetMax(ActivityDays)
                 IN  IF last \in {today - 1, today}
                     THEN RunEndingAt(ActivityDays, last) ELSE 0

\* C2: the longest streak is the length of the longest run of consecutive
\* days that each have at least one activity, whatever the reference date;
\* records on D and D+1 only, read on D+5, give longest 2 and current 0.
C2_LongestStreak ==
    dash.error = None =>
        /\ dash.longest_streak = LongestRunOf(ActivityDays)
        /\ ActivityDays = {today - 5, today - 4} =>
              dash.longest_streak = 2 /\ dash.current_streak = 0

\* C2 witness: three records on D and D+1, read on D+5
C2_Witness ==
    /\ dash.error = None
    /\ Len(activities) = 3
    /\ ActivityDays = {today - 5, today - 4}
    /\ dash.longest_streak = 2
    /\ dash.current_streak = 0

\* C3: the longest streak is at least the current streak, and both are 0
\* for an empty history.
C3_LongestAtLeastCurrent ==
    dash.error = None =>
        /\ dash.longest_streak >= dash.current_streak
        /\ activities = <<>> => dash.longest_streak = 0 /\ dash.current_streak = 0

\* C3 witness: a live streak that is shorter than an earlier one
C3_Witness ==
    /\ dash.error = None
    /\ dash.current_streak = 1
    /\ dash.longest_streak = 2

\* the records dated in [today - 7, today - 1] whose category is in types
InWindowCount(types) ==
    Cardinality({i \in 1..Len(activities) :
                    /\ today - 7 <= activities[i].date
                    /\ activities[i].date <= today - 1
                    /\ activities[i].type \in types})

CardioTypeSet ==
    {"Run", "Walk", "Indoor Cycle", "Hike", "Trail Run", "Rucking", "Padel", "Tennis", "Golf"}

\* C4: the weekly cardio and strength counts of the notification and of the
\* dashboard count exactly the records dated in [today - 7, today - 1] that
\* are of a cardio type, respectively Kettlebells, and the two reports agree.
C4_WeeklyCounts ==
    /\ dash.error = None =>
          /\ dash.cardio_7d = InWindowCount(CardioTypeSet)
          /\ dash.strength_7d = InWindowCount({"Kettlebells"})
    /\ msg.error = None =>
          /\ msg.weekly_cardio = InWindowCount(CardioTypeSet)
          /\ msg.weekly_strength = InWindowCount({"Kettlebells"})
    /\ (dash.error = None /\ msg.error = None) =>
          /\ dash.cardio_7d = msg.weekly_cardio
          /\ dash.strength_7d = msg.weekly_strength

\* C4 witness: records dated today, 7 days and 8 days before today, of which
\* both reports count the one of 7 days before
C4_Witness ==
    /\ dash.error = None
    /\ msg.error = None
    /\ {today - 8, today - 7, today} \subseteq ActivityDays
    /\ dash.cardio_7d + dash.strength_7d = 1
    /\ msg.weekly_cardio + msg.weekly_strength = 1


-----------------------------------------------------------------------------
(* Claims about get_today_suggestion, checked under SpecSuggest            *)

\* a record of one of the types is among the arguments' exercises, dated
\* after today - n
RecentlyDone(types, n) ==
    \E i \in 1..Len(sug_in.exercises) :
        /\ sug_in.exercises[i].date > today - n
        /\ \E j \in 1..Len(sug_in.exercises[i].types) :
              sug_in.exercises[i].types[j] \in types

\* The decision table of the recommendation policy: <<condition, prompt>>
DecisionTable ==
    << <<sug_in.rest_days >= 3, "Get moving! Even a 20min walk counts.">>,
       <<sug_in.rest_days >= 2, "Time to move. Light cardio or kettlebells.">>,
       <<sug_in.falling_off_strength /\ sug_in.weekly_strength <= 3,
         "Kettlebells - replace what's falling off tomorrow">>,
       <<sug_in.falling_off_cardio /\ sug_in.weekly_cardio <= 4,
         "Cardio - replace what's falling off tomorrow">>,
       <<sug_in.weekly_strength < 2 /\ ~RecentlyDone({"Kettlebells"}, 2),
         "Kettlebells - you're behind this week">>,
       <<sug_in.weekly_cardio < 3 /\ ~RecentlyDone(CardioTypeSet, 2),
         "Cardio session - you're behind this week">>,
       <<sug_in.monthly_strength < sug_in.strength_expected - 1, "Kettlebells session">>,
       <<sug_in.monthly_cardio < sug_in.cardio_expected - 1,
         "MAF cardio (walk, run, or cycle)">>,
       <<~RecentlyDone({"Kettlebells"}, 3), "Kettlebells (none in last 3 days)">>,
       <<~RecentlyDone(CardioTypeSet, 3), "Easy cardio for recovery">>,
       <<TRUE, "On track. Rest or light movement.">> >>

\* the first row of the table whose condition holds
FirstRow == CHOOSE k \in 1..11 : DecisionTable[k][1] /\ \A j \in 1..(k - 1) : ~DecisionTable[j][1]

\* C5: get_today_suggestion returns the prompt of the first matching row of
\* the 11-row decision table; rest_days = 3 gives the urgent prompt whatever
\* the other arguments are.
C5_FirstMatchWins ==
    suggestion # None =>
        /\ suggestion = DecisionTable[FirstRow][2]
        /\ sug_in.rest_days = 3 => suggestion = "Get moving! Even a 20min walk counts."

\* C5 witness: rows 1 to 9 fail and row 10 gives the prompt
C5_Witness ==
    /\ suggestion = "Easy cardio for recovery"
    /\ FirstRow = 10

\* goal 16 on day 15 of 30, 5 cardio sessions so far, and none of the rows 1
\* to 6 matches
C6_Case ==
    /\ suggestion # None
    /\ sug_in.day_of_month = 15
    /\ sug_in.days_in_month = 30
    /\ sug_in.monthly_cardio = 5
    /\ \A k \in 1..6 : ~DecisionTable[k][1]

\* C6 as the spec states it: in that case the month is behind pace and the
\* prompt of row 7 is returned.
C6_Original ==
    C6_Case =>
        /\ sug_in.cardio_expected = 8
        /\ sug_in.monthly_cardio < sug_in.cardio_expected - 1
        /\ suggestion = DecisionTable[7][2]

\* C6 as amended: in that case the month is behind pace (expected 8, and
\* 5 < 7) and the prompt of row 8, the monthly cardio row, is returned,
\* unless the monthly strength is behind its own pace too: then row 7 wins.
C6_Amended ==
    C6_Case =>
        /\ sug_in.cardio_expected = 8
        /\ sug_in.monthly_cardio < sug_in.cardio_expected - 1
        /\ suggestion = IF sug_in.monthly_strength < sug_in.strength_expected - 1
                        THEN DecisionTable[7][2] ELSE DecisionTable[8][2]

\* C6 witness: the case, with the strength on pace and the cardio prompt
C6_Witness ==
    /\ C6_Case
    /\ sug_in.monthly_strength >= sug_in.strength_expected - 1
    /\ suggestion = "MAF cardio (walk, run, or cycle)"


-----------------------------------------------------------------------------
(* Claims about the importer, checked under Spec                           *)

StoredIds == {activities[i].garmin_activity_id : i \in 1..Len(activities)}

StoredWeightDays == {weigh_ins[i].date : i \in 1..Len(weigh_ins)}

SkipListed(a) == a.typeKey \in {"sleep", "uncategorized", "Sleep"}

\* the tracked type of a well-formed upstream type key
TrackedTypeOf(key) ==
    CASE key = "running" -> "Run"
      [] key = "strength_training" -> "Kettlebells"
      [] OTHER -> "Walk"

\* the upstream activity a is in the store as it came
ActivityPersisted(a) ==
    /\ a.activityId # Missing
    /\ a.startTimeLocal # Malformed
    /\ a.typeKey # BadKey
    /\ \E i \in 1..Len(activities) :
          /\ activities[i].garmin_activity_id = ToString(a.activityId)
          /\ activities[i].date = a.startTimeLocal
          /\ activities[i].type = TrackedTypeOf(a.typeKey)

\* the upstream weight entry w (grams) is in the store as it came (to the
\* nearest hundredth of a kilogram)
WeightPersisted(w) ==
    /\ w.calendarDate # Missing
    /\ \E i \in 1..Len(weigh_ins) :
          /\ weigh_ins[i].date = w.calendarDate
          /\ 10 * weigh_ins[i].weight_kg - 5 <= w.weight
          /\ w.weight <= 10 * weigh_ins[i].weight_kg + 5

\* a run has returned on the upstream data as they are, and every upstream
\* record that is not skip-listed is in the store
FirstRunPersistedAll ==
    /\ result.error = None
    /\ \A i \in 1..Len(upstream.activities) :
          SkipListed(upstream.activities[i]) \/ ActivityPersisted(upstream.activities[i])
    /\ \A i \in 1..Len(upstream.weights) : WeightPersisted(upstream.weights[i])

\* C7: a second run on identical upstream data, the first having persisted
\* every record that is not skip-listed, creates nothing, counts as skipped
\* the upstream activities whose id is stored and the upstream weight
\* entries whose day is stored, and leaves the store unchanged.
C7_RerunCreatesNothing ==
    [][(FirstRunPersistedAll /\ upstream' = upstream /\ result'.error # "NotRun") =>
          /\ result'.error = None
          /\ result'.activities_created = 0
          /\ result'.activities_skipped =
                Cardinality({i \in 1..Len(upstream.activities) :
                    ToString(upstream.activities[i].activityId) \in StoredIds})
          /\ result'.weights_created = 0
          /\ result'.weights_skipped =
                Cardinality({i \in 1..Len(upstream.weights) :
                    upstream.weights[i].calendarDate \in StoredWeightDays})
          /\ activities' = activities
          /\ weigh_ins' = weigh_ins]_vars

\* C7 witness: a run that found an activity and a weight entry of an
\* earlier run, and skipped both
C7_Witness ==
    /\ FirstRunPersistedAll
    /\ Len(upstream.activities) = 1
    /\ Len(upstream.weights) = 1
    /\ result.activities_created = 0
    /\ result.activities_skipped = 1
    /\ result.weights_created = 0
    /\ result.weights_skipped = 1

\* C8: no two activity rows have the same external id and no two weight
\* rows have the same day; a run whose inserts conflict still returns.
C8_UniqueKeys ==
    /\ \A i, j \in 1..Len(activities) :
          activities[i].garmin_activity_id = activities[j].garmin_activity_id => i = j
    /\ \A i, j \in 1..Len(weigh_ins) : weigh_ins[i].date = weigh_ins[j].date => i = j

\* C8 witness: a run on two upstream activities with the same id that was
\* not stored before: both inserts returned, one row was written
C8_Witness ==
    /\ result.error = None
    /\ Len(upstream.activities) = 2
    /\ upstream.activities[1].activityId = upstream.activities[2].activityId
    /\ upstream.activities[1] # upstream.activities[2]
    /\ result.activities_created = 2
    /\ Len(activities) = 1

\* an upstream activity that is well-formed, recent and not skip-listed
GoodActivity(a) ==
    /\ a \in RegularActivities
    /\ ~SkipListed(a)

\* an upstream weight entry with a day and a weight
GoodWeight(w) == w.calendarDate # Missing /\ w.weight > 0

\* C9: no single bad record aborts the batch or keeps the other records
\* from being persisted: after a run, every well-formed upstream record is
\* in the store under its key.
C9_BadRecordDoesNotAbort ==
    result.error # "NotRun" =>
        /\ \A i \in 1..Len(upstream.activities) :
              GoodActivity(upstream.activities[i]) =>
                  ToString(upstream.activities[i].activityId) \in StoredIds
        /\ \A i \in 1..Len(upstream.weights) :
              GoodWeight(upstream.weights[i]) =>
                  upstream.weights[i].calendarDate \in StoredWeightDays

\* C10: no step changes or deletes a row that is in the store: every row
\* stays where it is, as it is.
C10_RowsNeverChange ==
    [][/\ Len(activities') >= Len(activities)
       /\ \A i \in 1..Len(activities) : activities'[i] = activities[i]
       /\ Len(weigh_ins') >= Len(weigh_ins)
       /\ \A i \in 1..Len(weigh_ins) : weigh_ins'[i] = weigh_ins[i]]_vars

\* C10 witness: a run has seen an activity whose id is stored with another
\* day and type, and a weight entry whose day is stored with another weight
C10_Witness ==
    /\ result.error = None
    /\ Len(upstream.activities) = 1
    /\ Len(upstream.weights) = 1
    /\ ToString(upstream.activities[1].activityId) \in StoredIds
    /\ upstream.activities[1] \in RegularActivities
    /\ ~ActivityPersisted(upstream.activities[1])
    /\ upstream.weights[1].calendarDate \in StoredWeightDays
    /\ upstream.weights[1].weight > 0
    /\ ~WeightPersisted(upstream.weights[1])
    /\ result.activities_skipped = 1
    /\ result.weights_skipped = 1

\* C11: the counts a run returns are those of the rows it wrote:
\* activities_created is the number of activity rows the run added and
\* weights_created the number of weight rows it added.
C11_CountsAreRowsWritten ==
    [][result'.error = None =>
          /\ result'.activities_created = Len(activities') - Len(activities)
          /\ result'.weights_created = Len(weigh_ins') - Len(weigh_ins)]_vars

\* the tracked types of the spec
TrackedTypes ==
    {"Run", "Trail Run", "Walk", "Hike", "Indoor Cycle", "Kettlebells", "Tennis",
     "Padel", "Golf"}

\* the upstream activity at place i is skip-listed and its id is in no row
SkippedSilently(i) ==
    /\ SkipListed(upstream.activities[i])
    /\ ToString(upstream.activities[i].activityId) \notin StoredIds

\* the upstream activities a run reads: those of the last DAYS_TO_SYNC days,
\* when every start time of the batch is a date
InSyncWindow(i) ==
    /\ \A j \in 1..Len(upstream.activities) :
          upstream.activities[j].startTimeLocal # Malformed
    /\ upstream.activities[i].startTimeLocal > today - DAYS_TO_SYNC

\* C12: a run that returns counts no skip-listed activity whose id is not
\* stored, neither as created nor as skipped, logs no warning about its
\* category, and writes no row for it: the two counts add up to no more than
\* the number of the other activities it read, and every row it writes is the
\* row of an upstream activity that is not skip-listed.
C12_SkipListIsSilent ==
    [][result'.error = None =>
          /\ result'.activities_created + result'.activities_skipped <=
                Cardinality({i \in 1..Len(upstream.activities) :
                                InSyncWindow(i) /\ ~SkippedSilently(i)})
          /\ result'.warnings \cap {"sleep", "uncategorized", "Sleep"} = {}
          /\ \A k \in (Len(activities) + 1)..Len(activities') :
                \E i \in 1..Len(upstream.activities) :
                    /\ ~SkipListed(upstream.activities[i])
                    /\ ActivityPersisted(upstream.activities[i])'
                    /\ activities'[k].garmin_activity_id =
                          ToString(upstream.activities[i].activityId)]_vars

\* C12 witness: a run has read a skip-listed activity and another one of
\* another id, has written the other one only and has counted it only
C12_Witness ==
    /\ result.error = None
    /\ Len(upstream.activities) = 2
    /\ SkipListed(upstream.activities[1])
    /\ upstream.activities[2] \in RegularActivities
    /\ upstream.activities[2].activityId # upstream.activities[1].activityId
    /\ ToString(upstream.activities[1].activityId) \notin StoredIds
    /\ ToString(upstream.activities[2].activityId) \in StoredIds
    /\ result.activities_created = 1
    /\ result.activities_skipped = 0

\* the category keys of the mapping table, as the spec lists their types
MappedKeys ==
    {"running", "trail_running", "treadmill_running", "walking", "hiking",
     "casual_walking", "cycling", "indoor_cycling", "virtual_ride",
     "strength_training", "cardio", "tennis", "tennis_v2", "padel", "paddelball",
     "racquet_ball", "golf", "other"}

\* the upstream activity at place i is classified by a run: it is read, its id
\* is not stored and it is not skip-listed
Classified(i) ==
    /\ InSyncWindow(i)
    /\ ToString(upstream.activities[i].activityId) \notin StoredIds
    /\ ~SkipListed(upstream.activities[i])

\* C13: every type of the mapping table is a tracked type, and every row of
\* the store has a tracked type; a run that returns has logged a warning for
\* exactly the classified keys that are not in the table, and every row it
\* writes has the mapped type of a classified activity's key, or Walk when
\* the key is not in the table.
C13_ClassificationIsTracked ==
    [][/\ \A k \in DOMAIN GARMIN_TO_TYPE : GARMIN_TO_TYPE[k] \in TrackedTypes
       /\ \A k \in 1..Len(activities') : activities'[k].type \in TrackedTypes
       /\ result'.error = None =>
             /\ result'.warnings =
                   {upstream.activities[i].typeKey : i \in
                       {j \in 1..Len(upstream.activities) :
                           Classified(j) /\ upstream.activities[j].typeKey \notin MappedKeys}}
             /\ \A k \in (Len(activities) + 1)..Len(activities') :
                   \E i \in 1..Len(upstream.activities) :
                       /\ Classified(i)
                       /\ activities'[k].garmin_activity_id =
                             ToString(upstream.activities[i].activityId)
                       /\ activities'[k].date = upstream.activities[i].startTimeLocal
                       /\ activities'[k].type =
                             IF upstream.activities[i].typeKey \in MappedKeys
                             THEN GARMIN_TO_TYPE[upstream.activities[i].typeKey]
                             ELSE "Walk"]_vars

\* C13 witness: a run has classified an activity whose key is not in the
\* table, has warned about it and has stored it as a Walk
C13_Witness ==
    /\ result.error = None
    /\ Len(upstream.activities) = 1
    /\ upstream.activities[1].typeKey = "yoga"
    /\ result.warnings = {"yoga"}
    /\ result.activities_created = 1
    /\ activities = <<ActivityRow(ToString(upstream.activities[1].activityId),
                                  upstream.activities[1].startTimeLocal, "Walk")>>

-----------------------------------------------------------------------------
(* Claims about the calendar-month window, checked under SpecReports        *)

\* the first day of the month of day d
FirstOfMonth(d) == d - (DateOf(d).day - 1)

\* the number of rows of the store dated from..to whose type is in types
CountBetween(from, to, types) ==
    Cardinality({i \in 1..Len(activities) :
        /\ from <= activities[i].date
        /\ activities[i].date <= to
        /\ activities[i].type \in types})

\* the last day of the month of day d
LastOfMonth(d) ==
    FirstOfMonth(d) + MonthLength(DateOf(d).year, DateOf(d).month) - 1

\* the dashboard's entry k is that of the month of the reference date
IsCurrentMonth(k) ==
    /\ dash.monthly_stats[k].year = DateOf(today).year
    /\ dash.monthly_stats[k].month = DateOf(today).month

\* C14: the current-month counts are those of the rows dated from the first
\* of the reference month to today, in the notification and in the
\* dashboard; the dashboard's counts of another month are those of the rows
\* dated in that month.
C14_MonthlyCounts ==
    /\ msg.error = None =>
          /\ msg.monthly_cardio = CountBetween(FirstOfMonth(today), today, CardioTypeSet)
          /\ msg.monthly_strength = CountBetween(FirstOfMonth(today), today, {"Kettlebells"})
    /\ dash.error = None =>
          \A k \in 1..Len(dash.monthly_stats) :
              LET st == dash.monthly_stats[k]
                  first == DayOrdinal(st.year, st.month, 1)
                  last == IF IsCurrentMonth(k) THEN today ELSE LastOfMonth(first)
              IN  /\ st.cardio = CountBetween(first, last, CardioTypeSet)
                  /\ st.strength = CountBetween(first, last, {"Kettlebells"})
    /\ (msg.error = None /\ dash.error = None) =>
          \A k \in 1..Len(dash.monthly_stats) :
              IsCurrentMonth(k) =>
                  /\ dash.monthly_stats[k].cardio = msg.monthly_cardio
                  /\ dash.monthly_stats[k].strength = msg.monthly_strength

-----------------------------------------------------------------------------
(* Claims about the monthly pace, checked under SpecPace                    *)

\* num / den to the nearest integer, an exact half to the larger one
HalfUp(num, den) == (2 * num + den) \div (2 * den)

\* num / den to the nearest integer, an exact half to the even one
HalfEven(num, den) ==
    CHOOSE k \in 0..(num + 1) :
        \/ 2 * k * den - 2 * num < den /\ 2 * num - 2 * k * den < den
        \/ (2 * k * den - 2 * num = den \/ 2 * num - 2 * k * den = den) /\ k % 2 = 0

\* the month length is that of the calendar, 28 to 31
MonthLengthIsRight ==
    /\ msg.days_in_month \in 28..31
    /\ msg.days_in_month = IF sug_in.month = 2
                           THEN (IF sug_in.year = 2028 THEN 29 ELSE 28)
                           ELSE IF sug_in.month \in {4, 6, 9, 11} THEN 30 ELSE 31

\* C15 as the spec states it: the expected pace of goals 16 and 10 is
\* goal * d / n to the nearest integer, an exact half to the larger one.
C15_Original ==
    msg.error = None =>
        /\ MonthLengthIsRight
        /\ msg.cardio_expected = HalfUp(16 * sug_in.day_of_month, msg.days_in_month)
        /\ msg.strength_expected = HalfUp(10 * sug_in.day_of_month, msg.days_in_month)

\* C15 as amended: the expected pace of goals 16 and 10 is goal * d / n to
\* the nearest integer, an exact half to the even one.
C15_Amended ==
    msg.error = None =>
        /\ MonthLengthIsRight
        /\ msg.cardio_expected = HalfEven(16 * sug_in.day_of_month, msg.days_in_month)
        /\ msg.strength_expected = HalfEven(10 * sug_in.day_of_month, msg.days_in_month)

\* C15 witness: day 7 of a February of 28 days, where 10 * 7 / 28 is 2.5 and
\* the expected strength pace is 2
C15_Witness ==
    /\ msg.error = None
    /\ sug_in.day_of_month = 7
    /\ msg.days_in_month = 28
    /\ msg.strength_expected = 2
    /\ msg.cardio_expected = 4

\* behind pace: the count is below the expected pace by more than one
CardioBehind == sug_in.monthly_cardio < msg.cardio_expected - 1

StrengthBehind == sug_in.monthly_strength < msg.strength_expected - 1

\* the notification has a pace alert line about kind
PaceAlert(kind) == \E i \in 1..Len(msg.pace_issues) : msg.pace_issues[i].about = kind

\* the markers and the cascade rows 7 and 8 flag a month exactly when it is
\* behind pace
MarkersAndRowsUseTheSlack ==
    /\ msg.monthly_cardio_status = "warning" <=> CardioBehind
    /\ msg.monthly_strength_status = "warning" <=> StrengthBehind
    /\ suggestion = "Kettlebells session" <=> StrengthBehind
    /\ suggestion = "MAF cardio (walk, run, or cycle)" <=> (CardioBehind /\ ~StrengthBehind)

\* C16 as the spec states it: the marker, the pace alert line and the rows 7
\* and 8 of the cascade all flag a month exactly when its count is below
\* expected - 1.
C16_Original ==
    msg.error = None =>
        /\ MarkersAndRowsUseTheSlack
        /\ PaceAlert("cardio") <=> CardioBehind
        /\ PaceAlert("strength") <=> StrengthBehind

\* C16 as amended: the marker and the rows 7 and 8 flag a month exactly when
\* its count is below expected - 1, and the pace alert line does when, in
\* addition, the day is not the last of the month.
C16_Amended ==
    msg.error = None =>
        /\ MarkersAndRowsUseTheSlack
        /\ PaceAlert("cardio") <=>
              (CardioBehind /\ sug_in.day_of_month < msg.days_in_month)
        /\ PaceAlert("strength") <=>
              (StrengthBehind /\ sug_in.day_of_month < msg.days_in_month)

\* C16 witness: on day 15 of 30 the cardio count is expected - 1 and is not
\* flagged, and the strength count is expected - 2 and is flagged three times
C16_Witness ==
    /\ msg.error = None
    /\ sug_in.day_of_month = 15
    /\ msg.days_in_month = 30
    /\ sug_in.monthly_cardio = msg.cardio_expected - 1
    /\ msg.monthly_cardio_status = "check"
    /\ ~PaceAlert("cardio")
    /\ sug_in.monthly_strength = msg.strength_expected - 2
    /\ msg.monthly_strength_status = "warning"
    /\ PaceAlert("strength")
    /\ suggestion = "Kettlebells session"

-----------------------------------------------------------------------------
(* Claims about the weight statistics, checked under SpecWeights            *)

\* the rows of weigh_ins dated after from and not after to
WeighInsIn(from, to) ==
    {i \in 1..Len(weigh_ins) : from < weigh_ins[i].date /\ weigh_ins[i].date <= to}

RECURSIVE SumOfRows(_)
SumOfRows(I) ==
    IF I = {} THEN 0
    ELSE LET i == CHOOSE x \in I : TRUE
         IN  weigh_ins[i].weight_kg + SumOfRows(I \ {i})

\* the rolling averages the dashboard reports for day d
RollingAvgsAt(d) ==
    {dash.weight_chart_with_avg[k].rolling_avg :
        k \in {x \in 1..Len(dash.weight_chart_with_avg) :
                  dash.weight_chart_with_avg[x].date = d}}

\* a is x to the nearest tenth of a kilogram, x being total / n hundredths
NearestTenth(a, total, n) ==
    /\ a % 10 = 0
    /\ n * a - total <= 5 * n
    /\ total - n * a <= 5 * n

\* C17 as the spec states it: for every weight observation at D the rolling
\* average reported for D is the mean of all the observations dated in
\* (D - 10 days, D].
C17_Original ==
    dash.error = None =>
        \A i \in 1..Len(weigh_ins) :
            LET window == WeighInsIn(weigh_ins[i].date - 10, weigh_ins[i].date)
            IN  /\ RollingAvgsAt(weigh_ins[i].date) # {}
                /\ \A a \in RollingAvgsAt(weigh_ins[i].date) :
                      a * Cardinality(window) = SumOfRows(window)

\* the rows of weigh_ins dated from 2026-01-01 on
Charted == {i \in 1..Len(weigh_ins) : weigh_ins[i].date >= NewYear}

\* C17 as amended: the rolling averages are reported for the observations
\* dated from 2026-01-01 on, one for each, and the one for D is the mean,
\* rounded to one decimal, of those of them that are dated in
\* (D - 10 days, D].
C17_Amended ==
    dash.error = None =>
        /\ Len(dash.weight_chart_with_avg) = Cardinality(Charted)
        /\ \A i \in 1..Len(weigh_ins) :
              LET window == WeighInsIn(weigh_ins[i].date - 10, weigh_ins[i].date) \cap Charted
              IN  IF i \in Charted
                  THEN /\ Cardinality(RollingAvgsAt(weigh_ins[i].date)) = 1
                       /\ \A a \in RollingAvgsAt(weigh_ins[i].date) :
                             NearestTenth(a, SumOfRows(window), Cardinality(window))
                  ELSE RollingAvgsAt(weigh_ins[i].date) = {}

\* C17 witness: observations two days before 2026-01-01, on 2026-01-02 and
\* ten days after the first one; the average of the last one is that of the
\* last two, 89.46 and 81.50, which is 85.48 and is reported as 85.5
C17_Witness ==
    /\ dash.error = None
    /\ weigh_ins = <<WeighInRow(NewYear - 2, 9110), WeighInRow(NewYear + 1, 8946),
                     WeighInRow(NewYear + 8, 8150)>>
    /\ RollingAvgsAt(NewYear + 8) = {8550}

\* the observation of row i is the only charted one in its 10-day range
AloneInRange(i) ==
    WeighInsIn(weigh_ins[i].date - 10, weigh_ins[i].date) \cap Charted = {i}

\* C18 as the spec states it: the rolling average at the first observation,
\* and at an observation with no other one in its 10-day range, is that
\* observation's stored weight.
C18_Original ==
    dash.error = None =>
        \A i \in 1..Len(weigh_ins) :
            (i = 1 \/ WeighInsIn(weigh_ins[i].date - 10, weigh_ins[i].date) = {i}) =>
                RollingAvgsAt(weigh_ins[i].date) = {weigh_ins[i].weight_kg}

\* C18 as amended: the rolling average at the first observation dated from
\* 2026-01-01 on, and at any such observation with no other such one in its
\* 10-day range, is that observation's stored weight rounded to one decimal.
C18_Amended ==
    dash.error = None =>
        \A i \in Charted :
            ((\A j \in Charted : j >= i) \/ AloneInRange(i)) =>
                /\ RollingAvgsAt(weigh_ins[i].date) # {}
                /\ \A a \in RollingAvgsAt(weigh_ins[i].date) :
                      NearestTenth(a, weigh_ins[i].weight_kg, 1)

\* C18 witness: a first observation of 89.46 kg is reported with the
\* average 89.5, and one more than ten days later with its own 82.02 as 82.0
C18_Witness ==
    /\ dash.error = None
    /\ weigh_ins = <<WeighInRow(NewYear + 1, 8946), WeighInRow(MaxDate, 8202)>>
    /\ RollingAvgsAt(NewYear + 1) = {8950}
    /\ RollingAvgsAt(MaxDate) = {8200}

\* the row of the latest weigh-in, and those of the last 30 days
LatestRow == CHOOSE i \in 1..Len(weigh_ins) :
                 \A j \in 1..Len(weigh_ins) : weigh_ins[j].date <= weigh_ins[i].date

Last30 == {i \in 1..Len(weigh_ins) : weigh_ins[i].date >= today - 30}

\* the weight of the latest weigh-in of the last 30 days less that of the
\* earliest one, in hundredths of a kilogram
Change30 ==
    LET last == CHOOSE i \in Last30 : \A j \in Last30 : weigh_ins[j].date <= weigh_ins[i].date
        first == CHOOSE i \in Last30 : \A j \in Last30 : weigh_ins[j].date >= weigh_ins[i].date
    IN  weigh_ins[last].weight_kg - weigh_ins[first].weight_kg

\* the dashboard's projected month is that of the day that is days after today
ProjectedIn(days) ==
    /\ dash.projected_date # <<>>
    /\ dash.projected_date[1].year = DateOf(today + days).year
    /\ dash.projected_date[1].month = DateOf(today + days).month

\* C19 as the spec states it: a projection is produced exactly when the
\* 30-day change is strictly negative and the current weight is above the
\* target, and it lies (current - target) / |change| x 30 days after today.
C19_Original ==
    dash.error = None =>
        LET losing == /\ Cardinality(Last30) >= 2
                      /\ Change30 < 0
                      /\ weigh_ins[LatestRow].weight_kg > target_weight
        IN  IF losing
            THEN ProjectedIn(((weigh_ins[LatestRow].weight_kg - target_weight) * 30)
                                 \div (0 - Change30))
            ELSE dash.projected_date = <<>>

\* C19 as amended: with the 30-day change (which needs two weigh-ins in the
\* last 30 days) and the distance to the target both rounded to one decimal,
\* a projection is produced exactly when the rounded change is negative and
\* the rounded distance is positive, and it names the month of the day that
\* is the whole part of distance / |change| x 30 days after today.
C19_Amended ==
    dash.error = None =>
        LET losing == /\ Cardinality(Last30) >= 2
                      /\ Round1(Change30) < 0
                      /\ Round1(weigh_ins[LatestRow].weight_kg - target_weight) > 0
        IN  IF losing
            THEN LET days == (Round1(weigh_ins[LatestRow].weight_kg - target_weight) * 30)
                                 \div (0 - Round1(Change30))
                 IN  ProjectedIn(days) /\ dash.projected_date[1].days = days
            ELSE dash.projected_date = <<>>

\* C19 witness: 91.10 kg on 2026-01-02 and 89.46 kg on the last day give the
\* change -1.6 and the distance 7.5, and a projection 140 days ahead, in June
C19_Witness ==
    /\ dash.error = None
    /\ today = MaxDate
    /\ weigh_ins = <<WeighInRow(NewYear + 1, 9110), WeighInRow(MaxDate, 8946)>>
    /\ dash.weight_change_30d = <<0 - 160>>
    /\ dash.projected_date = <<[days |-> 140, year |-> 2026, month |-> 6]>>

\* the rows of weigh_ins dated in month m of year y, and those dated before it
RowsOfMonth(y, m) ==
    {i \in 1..Len(weigh_ins) :
        DateOf(weigh_ins[i].date).year = y /\ DateOf(weigh_ins[i].date).month = m}

RowsBefore(y, m) ==
    {i \in 1..Len(weigh_ins) :
        DateOf(weigh_ins[i].date).year * 12 + DateOf(weigh_ins[i].date).month < y * 12 + m}

LatestOf(I) == CHOOSE i \in I : \A j \in I : weigh_ins[j].date <= weigh_ins[i].date

EarliestOf(I) == CHOOSE i \in I : \A j \in I : weigh_ins[j].date >= weigh_ins[i].date

\* C20: for every month the dashboard lists that has weight data, the
\* monthly weight change is the last weight of the month less the last
\* weight of the nearest earlier month that has data and, when no earlier
\* month has data, the last less the first weight of the month, whichever
\* month that is; the figures are compared to one decimal, as reported.
C20_MonthlyWeightChange ==
    dash.error = None =>
        \A k \in 1..Len(dash.monthly_stats) :
            LET stats == dash.monthly_stats[k]
                here == RowsOfMonth(stats.year, stats.month)
                before == RowsBefore(stats.year, stats.month)
            IN  here # {} =>
                    stats.weight_change =
                        IF before # {}
                        THEN <<Round1(weigh_ins[LatestOf(here)].weight_kg
                                      - weigh_ins[LatestOf(before)].weight_kg)>>
                        ELSE <<Round1(weigh_ins[LatestOf(here)].weight_kg
                                      - weigh_ins[EarliestOf(here)].weight_kg)>>

-----------------------------------------------------------------------------
(* Claims about the rest days and the falling-off day, checked under        *)
(* SpecReports                                                               *)

\* C21: the rest-day count is the number of days from the most recent
\* activity date to the reference date; it is 0 when an activity is dated
\* today and 0 when the history is empty.
C21_RestDays ==
    msg.error = None =>
        /\ ActivityDays = {} => msg.rest_days = 0
        /\ ActivityDays # {} => msg.rest_days = today - SetMax(ActivityDays)
        /\ today \in ActivityDays => msg.rest_days = 0

\* the records that are dated d
RecordsOn(d) == {i \in 1..Len(activities) : activities[i].date = d}

\* the records that the notification's rolling 7-day window holds when the
\* reference date is d
InWeek(d) ==
    {i \in 1..Len(activities) :
        \E k \in 1..Len(week_exercises(fetch_exercises(activities), d)) :
            /\ week_exercises(fetch_exercises(activities), d)[k].date = activities[i].date
            /\ week_exercises(fetch_exercises(activities), d)[k].types = <<activities[i].type>>}

\* C22: a record is reported as falling off tomorrow exactly when it is
\* dated 8 days before the reference date, and such a record is inside the
\* rolling 7-day window on the reference date and outside it on the
\* following day.
C22_FallingOffLeavesTomorrow ==
    msg.error = None =>
        /\ msg.falling_off_cardio <=>
              \E i \in RecordsOn(today - 8) : activities[i].type \in CARDIO_TYPES
        /\ msg.falling_off_strength <=>
              \E i \in RecordsOn(today - 8) : activities[i].type = "Kettlebells"
        /\ \A i \in RecordsOn(today - 8) : i \in InWeek(today) /\ i \notin InWeek(today + 1)

-----------------------------------------------------------------------------
(* Claims about the two reports on the edges of their inputs, checked under *)
(* SpecConsumers                                                             *)

\* C23: on every well-formed input (an empty activity history, an empty
\* weight history, a single activity, a single weight record, the first and
\* the last day of a month, the reference date 2026-01-01) generate_dashboard,
\* calculate_streak and build_daily_message complete without raising.
C23_NoException ==
    /\ dash.error \in {"NotRun", None}
    /\ msg.error \in {"NotRun", None}

\* C23 witness: on 2026-01-01, with one activity of that day and one
\* weigh-in, both reports are complete; no weekly loss is computed over the
\* zero weeks since 2026-01-01
C23_Witness ==
    /\ today = NewYear
    /\ activities = <<ActivityRow("1", NewYear, "Run")>>
    /\ weigh_ins = <<WeighInRow(NewYear - 2, 8946)>>
    /\ dash.error = None
    /\ msg.error = None
    /\ dash.weight_figures.avg_loss_per_week = Placeholder
    /\ dash.weight_figures.latest_weight = Figure(8946)

\* the dashboard prints the placeholder for its four weight figures and for
\* the weight change of every month it lists
DashboardShowsPlaceholders ==
    /\ dash.weight_figures.latest_weight = Placeholder
    /\ dash.weight_figures.weight_change_7d = Placeholder
    /\ dash.weight_figures.weight_change_30d = Placeholder
    /\ dash.weight_figures.avg_loss_per_week = Placeholder
    /\ \A k \in 1..Len(dash.weight_displays) : dash.weight_displays[k] = Placeholder

\* C24 as the spec states it: with no weight records both reports are
\* produced, and each shows the placeholder where a weight figure would be.
C24_Original ==
    weigh_ins = <<>> =>
        /\ dash.error \in {"NotRun", None}
        /\ msg.error \in {"NotRun", None}
        /\ dash.error = None => DashboardShowsPlaceholders
        /\ msg.error = None =>
              \E k \in 1..Len(msg.weight_section) : msg.weight_section[k] = Placeholder

\* C24 as amended: with no weight records both reports are produced; the
\* dashboard shows the placeholder for current weight, 7-day change, 30-day
\* change, average loss per week and each monthly weight change, and the
\* notification has no line in its weight section, and so no placeholder.
C24_Amended ==
    weigh_ins = <<>> =>
        /\ dash.error \in {"NotRun", None}
        /\ msg.error \in {"NotRun", None}
        /\ dash.error = None => DashboardShowsPlaceholders
        /\ msg.error = None => msg.weight_section = <<>>

\* C24 witness: no weigh-ins and activities in January and February; both
\* reports have run, the dashboard lists two months with the placeholder
C24_Witness ==
    /\ weigh_ins = <<>>
    /\ Len(activities) = 2
    /\ dash.error = None
    /\ msg.error = None
    /\ dash.weight_figures.latest_weight = Placeholder
    /\ dash.weight_displays = <<Placeholder, Placeholder>>
    /\ msg.latest_weight = <<>>
    /\ msg.weight_section = <<>>

\* C25: for the same weight history and reference date, the 30-day weight
\* change of the notification equals that of the dashboard, and the two are
\* present or absent together.
C25_SameThirtyDayChange ==
    (dash.error = None /\ msg.error = None) =>
        msg.weight_30d_change = dash.weight_change_30d

-----------------------------------------------------------------------------
(* A claim about the recent-activity conditions, checked under SpecSuggest  *)

\* a record of one of the types is dated on one of the n calendar days that
\* end today: today, today - 1, ..., today - (n - 1)
DoneOnLastDays(types, n) ==
    \E d \in 0..(n - 1) :
        \E i \in 1..Len(sug_in.exercises) :
            /\ sug_in.exercises[i].date = today - d
            /\ \E j \in 1..Len(sug_in.exercises[i].types) :
                  sug_in.exercises[i].types[j] \in types

\* the rows before row k of the decision table do not match
RowsBeforeFail(k) == \A j \in 1..(k - 1) : ~DecisionTable[j][1]

\* C26: the "no activity in the last N days" conditions of rows 5, 6, 9 and
\* 10 look at the N calendar days ending today: when the rows before it fail
\* (and, for rows 5 and 6, the week is behind), the row's prompt is returned
\* exactly when no matching record is dated on one of these days, so that a
\* matching record dated today suppresses the row.
C26_LastDaysEndToday ==
    suggestion # None =>
        /\ (RowsBeforeFail(5) /\ sug_in.weekly_strength < WEEKLY_STRENGTH_GOAL - 1) =>
              (suggestion = DecisionTable[5][2] <=> ~DoneOnLastDays({"Kettlebells"}, 2))
        /\ (RowsBeforeFail(6) /\ sug_in.weekly_cardio < WEEKLY_CARDIO_GOAL - 1) =>
              (suggestion = DecisionTable[6][2] <=> ~DoneOnLastDays(CARDIO_TYPES, 2))
        /\ RowsBeforeFail(9) =>
              (suggestion = DecisionTable[9][2] <=> ~DoneOnLastDays({"Kettlebells"}, 3))
        /\ RowsBeforeFail(10) =>
              (suggestion = DecisionTable[10][2] <=> ~DoneOnLastDays(CARDIO_TYPES, 3))

\* C26 witness: the week's strength is behind and rows 1 to 4 fail, the
\* only Kettlebells record is dated today, and row 5 is not returned
C26_Witness ==
    /\ suggestion # None
    /\ \A j \in 1..4 : ~DecisionTable[j][1]
    /\ sug_in.weekly_strength < WEEKLY_STRENGTH_GOAL - 1
    /\ sug_in.exercises = <<[date |-> today, types |-> <<"Kettlebells">>]>>
    /\ suggestion # "Kettlebells - you're behind this week"

-----------------------------------------------------------------------------
(* Claims about the reports as the days pass, checked under SpecDaily       *)

\* the records of one of the types that are dated X with
\* X + from <= today <= X + to
RecordsAged(types, from, to) ==
    {i \in 1..Len(activities) :
        /\ activities[i].type \in types
        /\ activities[i].date + from <= today
        /\ today <= activities[i].date + to}

C28_BrokenStreakIsRestWarning ==
    ( /\ dash.error = None
      /\ msg.error = None
      /\ activities # <<>>
      /\ \A i \in 1..Len(activities) : activities[i].date <= today ) =>
        /\ dash.current_streak = 0 <=> msg.rest_days >= REST_DAY_WARNING
        /\ dash.current_streak = 0 <=>
              msg.suggestion \in {"Get moving! Even a 20min walk counts.",
                                  "Time to move. Light cardio or kettlebells."}

\* C28 witness: the last activity is two days old: the streak is 0 and the
\* warning prompt of row 2 is given
C28_Witness ==
    /\ dash.error = None
    /\ msg.error = None
    /\ activities # <<>>
    /\ \A i \in 1..Len(activities) : activities[i].date <= today - 2
    /\ \E i \in 1..Len(activities) : activities[i].date = today - 2
    /\ dash.current_streak = 0
    /\ msg.rest_days = 2
    /\ msg.suggestion = "Time to move. Light cardio or kettlebells."

\* the longest streak that calculate_streak finds in a store on day d
LongestOf(store, d) == calculate_streak(fetch_exercises(store), d)[2]

\* C29: across imports, which only add records, the longest streak computed
\* from the store never decreases; for a fixed store it is the same on
\* every reference date, and it is the one the dashboard shows.
C29_LongestNeverDecreases ==
    [][ /\ \A d \in 0..LastDay : LongestOf(activities, d) = LongestOf(activities, today)
        /\ dash.error = None => dash.longest_streak = LongestOf(activities, today)
        /\ LongestOf(activities', today') >= LongestOf(activities, today)
        /\ activities' = activities =>
              LongestOf(activities', today') = LongestOf(activities, today) ]_vars

\* C29 witness: two records on consecutive days, seen three or more days
\* later: the current streak is broken and the longest one is still 2
C29_Witness ==
    /\ Len(activities) = 2
    /\ activities[2].date = activities[1].date + 1
    /\ today >= activities[2].date + 3
    /\ dash.error = None
    /\ dash.current_streak = 0
    /\ dash.longest_streak = 2

\* the types the importer gives to the records it stores
ImportedTypes == {GARMIN_TO_TYPE[k] : k \in DOMAIN GARMIN_TO_TYPE} \cup {"Walk"}

\* the records dated from day from to day to
RecordsBetween(from, to) ==
    {i \in 1..Len(activities) : from <= activities[i].date /\ activities[i].date <= to}

\* C30: each of the nine types the importer stores is either a cardio type
\* or Kettlebells and never both, so that in every window of the two reports
\* the cardio count plus the strength count is the number of records dated
\* in the window.
C30_OneGoalPerRecord ==
    /\ Cardinality(ImportedTypes) = 9
    /\ \A t \in ImportedTypes :
          /\ (t \in CARDIO_TYPES) # (t = "Kettlebells")
          /\ (t \in DashboardCardioTypes) # (t = "Kettlebells")
    /\ \A i \in 1..Len(activities) : activities[i].type \in ImportedTypes
    /\ msg.error = None =>
          /\ msg.weekly_cardio + msg.weekly_strength
                = Cardinality(RecordsBetween(today - 7, today - 1))
          /\ msg.monthly_cardio + msg.monthly_strength
                = Cardinality(RecordsBetween(today - (DateOf(today).day - 1), LastDay + 1))
    /\ dash.error = None =>
          /\ dash.cardio_7d + dash.strength_7d
                = Cardinality(RecordsBetween(today - 7, today - 1))
          /\ \A k \in 1..Len(dash.monthly_stats) :
                dash.monthly_stats[k].cardio + dash.monthly_stats[k].strength
                   = Cardinality({i \in 1..Len(activities) :
                        /\ DateOf(activities[i].date).year = dash.monthly_stats[k].year
                        /\ DateOf(activities[i].date).month = dash.monthly_stats[k].month})

\* C30 witness: a round of golf and a strength session in the window: one
\* counts as cardio, the other as strength
C30_Witness ==
    /\ Len(activities) = 2
    /\ activities[1].type = "Golf"
    /\ activities[2].type = "Kettlebells"
    /\ msg.error = None
    /\ dash.error = None
    /\ msg.weekly_cardio = 1 /\ msg.weekly_strength = 1
    /\ dash.cardio_7d = 1 /\ dash.strength_7d = 1
    /\ msg.monthly_cardio + msg.monthly_strength = 2


====
